---------------------------- MODULE Spec2Model ----------------------------
(***************************************************************************)
(* Bank-connection subsystem of the backend (src/src/routes/bank.ts):      *)
(* the OAuth state registry, the KFTC token lifecycle and the transaction  *)
(* ingestion of /bank/connect and /bank/account.                           *)
(*                                                                         *)
(* Conventions.                                                            *)
(*  - An optional value (null / undefined in the source) is the empty      *)
(*    tuple None; a present value v is Some(v) = <<v>>.                    *)
(*  - Time is Date.now() in milliseconds.  The clock only visits the       *)
(*    instants k * step + f, f <= MaxFine, so that both sides of every     *)
(*    expiry comparison are reached without enumerating each millisecond.  *)
(*  - Every await of a handler is a point where other requests may run;    *)
(*    a handler is a sequence of atomic steps, one per awaited operation.  *)
(***************************************************************************)
EXTENDS Integers, Sequences, FiniteSets, TLC

VARIABLES
    now,          \* Date.now() / the database's NOW(), in ms
    missingEnv,   \* bank.ts:81-83  the required KFTC_* variables the process lacks
    nodeEnv,      \* process.env.NODE_ENV
    stateStore,   \* bank.ts:86  Map state -> expiresAt
    issuedAt,     \* history: state -> instant at which rememberState registered it
    validations,  \* history: state -> results of validateAndConsumeState, in call order
    lastCallback, \* the last /auth/callback request and its response
    users,        \* table users: id -> token columns
    bank_accounts,\* table bank_accounts: sequence of rows
    transactions, \* table transactions: sequence of rows
    req,          \* the requests in flight: slot -> locals of the handler
    started       \* history: number of requests received so far

vars == <<now, missingEnv, nodeEnv, stateStore, issuedAt, validations, lastCallback,
          users, bank_accounts, transactions, req, started>>

registryVars == <<stateStore, issuedAt, validations, lastCallback>>
dbVars == <<users, bank_accounts, transactions>>

None == <<>>
Some(v) == <<v>>

\* JavaScript truthiness of an optional string / number
TruthyStr(o) == o # None /\ o[1] # ""
TruthyNum(o) == o # None /\ o[1] # 0

---------------------------------------------------------------------------
(* Bounds *)

\* the clock visits the first MaxFine milliseconds after each coarse step
MaxFine == 1
\* the registry's clock runs up to MaxTtls state lifetimes
MaxTtls == 1
\* number of validateAndConsumeState calls recorded per state token
MaxValidations == 2

---------------------------------------------------------------------------
(* The clock *)

\* one millisecond passes
TickMs(step) ==
    /\ (now % step) < MaxFine
    /\ now' = now + 1

\* `step` milliseconds pass
TickStep(step, limit) ==
    /\ now + step <= limit * step + MaxFine
    /\ now' = now + step

---------------------------------------------------------------------------
(* OAuth state registry: bank.ts:85-105 *)

STATE_TTL_MS == 10 * 60 * 1000

\* the values crypto.randomBytes(16) produces in a run, and a value a client
\* makes up that is never produced
StateTokens == {"s1", "s2"}
ForgedState == "forged"

\* generateState: 128 random bits; a value generated before is not generated again
generateState == StateTokens \ DOMAIN issuedAt

\* stateStore.set(state, Date.now() + STATE_TTL_MS)
rememberState(store, state, t) ==
    [s \in (DOMAIN store) \cup {state} |->
        IF s = state THEN t + STATE_TTL_MS ELSE store[s]]

\* stateStore.delete(state)
MapDelete(store, state) == [s \in (DOMAIN store) \ {state} |-> store[s]]

validateAndConsumeState_NoDelete(store, state, t) ==
    IF state \notin DOMAIN store THEN [result |-> FALSE, store |-> store]
    ELSE IF t > store[state] THEN [result |-> FALSE, store |-> MapDelete(store, state)]
    ELSE [result |-> TRUE, store |-> store]

validateAndConsumeState_Inclusive(store, state, t) ==
    IF state \notin DOMAIN store THEN [result |-> FALSE, store |-> store]
    ELSE IF t >= store[state] THEN [result |-> FALSE, store |-> MapDelete(store, state)]
    ELSE [result |-> TRUE, store |-> MapDelete(store, state)]

\* the value returned and the registry left behind
\* every state is accepted
validateAndConsumeState_AlwaysTrue(store, state, t) ==
    [result |-> TRUE, store |-> MapDelete(store, state)]

validateAndConsumeState(store, state, t) ==
    IF state \notin DOMAIN store THEN [result |-> FALSE, store |-> store]
    ELSE IF t > store[state] THEN [result |-> FALSE, store |-> MapDelete(store, state)]
    ELSE [result |-> TRUE, store |-> MapDelete(store, state)]

\* assertEnv returns (true) or throws "Missing required env vars" (false)
assertEnv == missingEnv = {}

\* GET /bank/auth-url; when assertEnv throws the route answers 500 and
\* registers nothing
AuthUrl ==
    /\ assertEnv
    /\ \E state \in generateState :
        /\ stateStore' = rememberState(stateStore, state, now)
        /\ issuedAt' = [s \in (DOMAIN issuedAt) \cup {state} |->
                            IF s = state THEN now ELSE issuedAt[s]]
        /\ validations' = [s \in (DOMAIN validations) \cup {state} |->
                            IF s = state THEN <<>> ELSE validations[s]]
    /\ UNCHANGED <<now, missingEnv, nodeEnv, lastCallback, dbVars, req, started>>

\* the response of /auth/callback to a request: status, error, 200 body
CallbackResponse(code, state, scope, status, error, body) ==
    [code |-> code, state |-> state, scope |-> scope,
     status |-> status, error |-> error, body |-> body]

\* the state is validated before the code is looked at
Callback_ValidateFirst(code, state, scope) ==
    /\ TruthyStr(state) /\ state[1] \in DOMAIN validations
          => Len(validations[state[1]]) < MaxValidations
    /\ IF ~TruthyStr(state)
       THEN /\ lastCallback' = CallbackResponse(code, state, scope, 400,
                                    IF ~TruthyStr(code) THEN "code is required"
                                    ELSE "state is required", None)
            /\ UNCHANGED <<stateStore, validations>>
       ELSE LET v == validateAndConsumeState(stateStore, state[1], now) IN
            /\ stateStore' = v.store
            /\ validations' =
                 IF state[1] \in DOMAIN validations
                 THEN [validations EXCEPT ![state[1]] =
                          Append(@, [at |-> now,
                                     present |-> state[1] \in DOMAIN stateStore,
                                     result |-> v.result])]
                 ELSE validations
            /\ lastCallback' =
                 IF ~TruthyStr(code)
                 THEN CallbackResponse(code, state, scope, 400,
                                       "code is required", None)
                 ELSE IF v.result
                 THEN CallbackResponse(code, state, scope, 200, "",
                         Some([kftcAuthCode |-> code[1],
                               scope |-> IF TruthyStr(scope) THEN scope[1]
                                         ELSE "login transfer",
                               state |-> state[1]]))
                 ELSE CallbackResponse(code, state, scope, 400,
                                       "invalid_or_expired_state", None)
    /\ UNCHANGED <<now, missingEnv, nodeEnv, issuedAt, dbVars, req, started>>

\* GET /bank/auth/callback?code&state&scope
Callback(code, state, scope) ==
    /\ TruthyStr(state) /\ state[1] \in DOMAIN validations
          => Len(validations[state[1]]) < MaxValidations
    /\ IF ~TruthyStr(code)
       THEN /\ lastCallback' = CallbackResponse(code, state, scope, 400,
                                                "code is required", None)
            /\ UNCHANGED <<stateStore, validations>>
       ELSE IF ~TruthyStr(state)
       THEN /\ lastCallback' = CallbackResponse(code, state, scope, 400,
                                                "state is required", None)
            /\ UNCHANGED <<stateStore, validations>>
       ELSE LET v == validateAndConsumeState(stateStore, state[1], now) IN
            /\ stateStore' = v.store
            /\ validations' =
                 IF state[1] \in DOMAIN validations
                 THEN [validations EXCEPT ![state[1]] =
                          Append(@, [at |-> now,
                                     present |-> state[1] \in DOMAIN stateStore,
                                     result |-> v.result])]
                 ELSE validations
            /\ lastCallback' =
                 IF v.result
                 THEN CallbackResponse(code, state, scope, 200, "",
                         Some([kftcAuthCode |-> code[1],
                               scope |-> IF TruthyStr(scope) THEN scope[1]
                                         ELSE "login transfer",
                               state |-> state[1]]))
                 ELSE CallbackResponse(code, state, scope, 400,
                                       "invalid_or_expired_state", None)
    /\ UNCHANGED <<now, missingEnv, nodeEnv, issuedAt, dbVars, req, started>>

InitRegistry ==
    /\ stateStore = <<>>
    /\ issuedAt = <<>>
    /\ validations = <<>>
    /\ lastCallback = CallbackResponse(None, None, None, 0, "", None)

CallbackCodes == {None, Some(""), Some("code")}
CallbackStates == {None, Some(""), Some(ForgedState)} \cup {Some(s) : s \in StateTokens}
CallbackScopes == {None, Some("login")}


---------------------------------------------------------------------------
(* Requests *)

\* number of requests the service receives in a run
MaxReqs == 2

\* requests being handled at the same time
Slots == {1, 2}

UserIds == {1, 2}

\* the locals of a handler; the fields of the last three lines are history:
\* checkedAt      the instant of the validity check of ensureKftcAccessToken
\* refreshCalls   the refresh calls the request has sent to the provider
\* exchanged      the provider's answer to the request's code exchange
\* created        the ids of the bank_accounts rows the request inserted
\* dupSeen        the request's INSERT IGNORE met a row stored before it
\* providerIds    the provider transaction ids the request was given
\* batchIds       for each row of allValues, the account id its batch got
\* insertedKeys   the kftc_tran_id of the rows the request's INSERT added
\* refreshed      the provider's answer to the request's refresh call
\* wrote          the users row the request's UPDATE wrote
\* replaced       the users row that UPDATE replaced
\* upstream       the provider response that made the request fail
\* txs            body.transactions of a connect request, as it arrived
\* calls          the provider data calls and account upserts a connect
\*                request has issued, in order
\* and rawBody is the raw provider body inside the detail of the response
IdleReq ==
    [kind |-> "idle", pc |-> "idle", userId |-> 0,
     status |-> 0, error |-> "", detail |-> "",
     txs |-> None, calls |-> <<>>, fintechUseNum |-> None,
     row |-> None, accessToken |-> None, refreshToken |-> None,
     userSeqNo |-> None, expiresIn |-> None,
     bankName |-> "unknown", accounts |-> <<>>, idx |-> 0,
     existing |-> None, accountId |-> None, allValues |-> <<>>,
     respTxs |-> <<>>,
     checkedAt |-> None, refreshCalls |-> 0, exchanged |-> None,
     created |-> {}, dupSeen |-> FALSE, providerIds |-> {}, batchIds |-> <<>>,
     insertedKeys |-> {},
     refreshed |-> None, wrote |-> None, replaced |-> None,
     upstream |-> None, rawBody |-> None]

\* a request takes the first slot that holds no request in flight
Free(r) ==
    /\ req[r].pc \in {"idle", "done"}
    /\ \A r2 \in Slots : r2 < r => req[r2].pc \notin {"idle", "done"}

\* res.status(status).json({error, detail}) and return: the handler's locals
\* are gone, the history fields stay
Respond(q, status, error, detail) ==
    [IdleReq EXCEPT !.kind = q.kind, !.userId = q.userId, !.pc = "done",
                    !.status = status, !.error = error, !.detail = detail,
                    !.allValues = q.allValues, !.accessToken = q.accessToken,
                    !.bankName = q.bankName,
                    !.checkedAt = q.checkedAt, !.refreshCalls = q.refreshCalls,
                    !.row = q.row, !.exchanged = q.exchanged,
                    !.created = q.created, !.dupSeen = q.dupSeen,
                    !.providerIds = q.providerIds, !.batchIds = q.batchIds,
                    !.insertedKeys = q.insertedKeys,
                    !.refreshed = q.refreshed, !.wrote = q.wrote,
                    !.replaced = q.replaced,
                    !.txs = q.txs, !.calls = q.calls]


\* a ?? b
Nullish(a, b) == IF a # None THEN a ELSE b

---------------------------------------------------------------------------
(* Token lifecycle: bank.ts:118-243 *)

bufferMs == 2 * 60 * 1000

\* MySQL NOW(): the current time, without fractional seconds
SqlNow(t) == (t \div 1000) * 1000

\* a user row as authController inserts it: the kftc columns are NULL
NewUserRow ==
    [kftc_access_token |-> None, kftc_refresh_token |-> None,
     kftc_user_seq_no |-> None, kftc_token_expires_at |-> None]

\* an absent expires_in counts as one hour
ExpiresIn_Hour(raw) == IF raw # None THEN Some(raw[1]) ELSE Some(3600)

\* expires_in as the handlers read it (bank.ts:220, 426): a number is taken as
\* it is (0 included), an absent field becomes null
ExpiresIn(raw) == IF raw # None THEN Some(raw[1]) ELSE None

\* the UPDATE changes no row
UpdateUserTokens_NoRow(tbl, userId, accessToken, refreshToken, userSeqNo, expiresIn, t) ==
    tbl

\* the UPDATE without its WHERE clause
UpdateUserTokens_AllUsers(tbl, userId, accessToken, refreshToken, userSeqNo, expiresIn, t) ==
    [u \in DOMAIN tbl |->
        [kftc_access_token |-> accessToken,
         kftc_refresh_token |-> refreshToken,
         kftc_user_seq_no |-> userSeqNo,
         kftc_token_expires_at |->
             Some((t \div 1000) * 1000 + Nullish(expiresIn, Some(0))[1] * 1000)]]

\* UPDATE users SET kftc_access_token = ?, kftc_refresh_token = ?, kftc_user_seq_no = ?,
\*   kftc_token_expires_at = IFNULL(DATE_ADD(NOW(), INTERVAL ? SECOND), NULL) WHERE id = ?
\* with the parameters [accessToken, refreshToken, userSeqNo, expiresIn ?? 0, userId]
UpdateUserTokens(tbl, userId, accessToken, refreshToken, userSeqNo, expiresIn, t) ==
    [u \in DOMAIN tbl |->
        IF u = userId
        THEN [kftc_access_token |-> accessToken,
              kftc_refresh_token |-> refreshToken,
              kftc_user_seq_no |-> userSeqNo,
              kftc_token_expires_at |->
                  Some(SqlNow(t) + Nullish(expiresIn, Some(0))[1] * 1000)]
        ELSE tbl[u]]

isValid_NoBuffer(row, t) ==
    /\ TruthyStr(row.kftc_access_token)
    /\ TruthyNum(row.kftc_token_expires_at)
    /\ row.kftc_token_expires_at[1] - t > 0

\* bank.ts:203-207
isValid(row, t) ==
    /\ TruthyStr(row.kftc_access_token)
    /\ TruthyNum(row.kftc_token_expires_at)
    /\ row.kftc_token_expires_at[1] - t > bufferMs

\* the caller gets the access token of the row that was read
EnsureReturn_OldToken(q, tok) ==
    IF q.kind = "access-token"
    THEN Respond([q EXCEPT !.accessToken = q.row[1].kftc_access_token], 200, "", "")
    ELSE [q EXCEPT !.pc = "acc_userinfo",
                   !.accessToken = q.row[1].kftc_access_token]

\* how the caller of ensureKftcAccessToken goes on with the token: the
\* access-token route answers 200 (line 575); the account route calls
\* fetchKftcUserInfo (line 601), whose assertEnv throws before any fetch
EnsureReturn(q, tok) ==
    IF q.kind = "access-token"
    THEN Respond([q EXCEPT !.accessToken = tok], 200, "", "")
    ELSE IF ~assertEnv
    THEN Respond([q EXCEPT !.accessToken = tok], 502, "account_sync_failed",
                 "Missing required env vars")
    ELSE [q EXCEPT !.pc = "acc_userinfo", !.accessToken = tok]

\* how the caller of ensureKftcAccessToken answers when it throws
EnsureThrow(q, msg) ==
    IF q.kind = "access-token"
    THEN Respond(q, 400, "token_refresh_failed", msg)
    ELSE Respond(q, 502, "account_sync_failed", msg)

\* GET /bank/access-token arrives (requireAuth has set req.user.id)
AccessTokenStart(r, u) ==
    /\ Free(r) /\ started < MaxReqs
    /\ started' = started + 1
    /\ req' = [req EXCEPT ![r] =
                 [IdleReq EXCEPT !.kind = "access-token", !.userId = u,
                                 !.pc = "ens_select"]]
    /\ UNCHANGED <<now, missingEnv, nodeEnv, registryVars, dbVars>>

\* ensureKftcAccessToken: the SELECT executes
EnsSelect(r) ==
    /\ req[r].pc = "ens_select"
    /\ req' = [req EXCEPT ![r] =
                 IF req[r].userId \in DOMAIN users
                 THEN [@ EXCEPT !.row = Some(users[req[r].userId]), !.pc = "ens_check"]
                 ELSE EnsureThrow(@, "user_not_found")]
    /\ UNCHANGED <<now, missingEnv, nodeEnv, registryVars, dbVars, started>>

\* the refresh is called with whatever refresh token the row holds
EnsCheck_NoTokenTest(r) ==
    /\ req[r].pc = "ens_check"
    /\ LET q == [req[r] EXCEPT !.checkedAt = Some(now)]
           row == req[r].row[1]
       IN req' = [req EXCEPT ![r] =
                 IF isValid(row, now) THEN EnsureReturn(q, row.kftc_access_token)
                 ELSE IF ~assertEnv
                 THEN EnsureThrow(q, "Missing required env vars")
                 ELSE [q EXCEPT !.pc = "ens_refresh",
                                !.refreshCalls = @ + 1]]
    /\ UNCHANGED <<now, missingEnv, nodeEnv, registryVars, dbVars, started>>

\* ensureKftcAccessToken resumes with the row: lines 201-214, up to the fetch
EnsCheck(r) ==
    /\ req[r].pc = "ens_check"
    /\ LET q == [req[r] EXCEPT !.checkedAt = Some(now)]
           row == req[r].row[1]
       IN req' = [req EXCEPT ![r] =
                 IF isValid(row, now) THEN EnsureReturn(q, row.kftc_access_token)
                 ELSE IF ~TruthyStr(row.kftc_refresh_token)
                 THEN EnsureThrow(q, "refresh_token_missing")
                 ELSE IF ~assertEnv
                 THEN EnsureThrow(q, "Missing required env vars")
                 ELSE [q EXCEPT !.pc = "ens_refresh",
                                !.refreshCalls = @ + 1]]
    /\ UNCHANGED <<now, missingEnv, nodeEnv, registryVars, dbVars, started>>

\* the error a provider call throws, if any: response.ok false, or a body
\* that JSON.parse rejects (bank.ts:139-149 and the like)
HttpError(resp, failed, unparsable) ==
    IF resp.status < 200 \/ resp.status > 299 THEN Some(failed)
    ELSE IF ~resp.parses THEN Some(unparsable)
    ELSE None

\* the answer of a handler to an error thrown for the provider response
\* resp: the message of a non-2xx response ends with ${rawBody}
\* (bank.ts:142, 179, 258, 284, 319) and the catch puts the message into
\* the detail of the response, whatever NODE_ENV is
Thrown(resp, answer) ==
    [answer EXCEPT !.upstream = Some(resp),
                   !.rawBody = IF resp.status < 200 \/ resp.status > 299
                               THEN Some(resp.body) ELSE None]

\* a refresh response without access_token is stored all the same
MissingAccessToken_Never(resp) == FALSE

\* bank.ts:216, 222: the refresh response carries no access_token
MissingAccessToken(resp) == ~TruthyStr(resp.access_token)

\* refreshAccessToken answers: lines 214-224
EnsRefresh(r, resp) ==
    /\ req[r].pc = "ens_refresh"
    /\ LET row == req[r].row[1]
           err == HttpError(resp, "KFTC token refresh failed",
                                  "Failed to parse KFTC refresh response")
           q == [req[r] EXCEPT !.refreshed = Some(resp)]
       IN req' = [req EXCEPT ![r] =
                 IF err # None THEN Thrown(resp, EnsureThrow(q, err[1]))
                 ELSE IF MissingAccessToken(resp)
                 THEN EnsureThrow(q, "refresh_response_missing_access_token")
                 ELSE [q EXCEPT
                    !.accessToken = resp.access_token,
                    !.refreshToken = Nullish(resp.refresh_token, row.kftc_refresh_token),
                    !.userSeqNo = Nullish(resp.user_seq_no, row.kftc_user_seq_no),
                    !.expiresIn = ExpiresIn(resp.expires_in),
                    !.pc = "ens_update"]]
    /\ UNCHANGED <<now, missingEnv, nodeEnv, registryVars, dbVars, started>>

\* the UPDATE of lines 226-240 executes; ensureKftcAccessToken returns
EnsUpdate(r) ==
    /\ req[r].pc = "ens_update"
    /\ users' = UpdateUserTokens(users, req[r].userId, req[r].accessToken,
                                 req[r].refreshToken, req[r].userSeqNo,
                                 req[r].expiresIn, now)
    /\ req' = [req EXCEPT ![r] =
                 EnsureReturn([@ EXCEPT !.wrote = Some(users'[req[r].userId]),
                                        !.replaced = Some(users[req[r].userId])],
                              req[r].accessToken)]
    /\ UNCHANGED <<now, missingEnv, nodeEnv, registryVars, bank_accounts, transactions, started>>

---------------------------------------------------------------------------
(* Ingestion: bank.ts:330-354, 405-564, 585-657 *)

\* the unique index of transactions: one row per user and kftc_tran_id
TransactionsUnique(a, b) ==
    a.user_id = b.user_id /\ a.kftc_tran_id = b.kftc_tran_id

\* the unique index of bank_accounts: one row per user and account_num
BankAccountsUnique(a, b) ==
    a.user_id = b.user_id /\ a.account_num = b.account_num

Conflicts(tbl, row) == \E i \in 1..Len(tbl) : TransactionsUnique(tbl[i], row)

RECURSIVE InsertIgnore_Replace(_, _)
InsertIgnore_Replace(tbl, values) ==
    IF values = <<>> THEN tbl
    ELSE LET v == Head(values)
             t2 == IF Conflicts(tbl, v)
                   THEN [i \in 1..Len(tbl) |->
                           IF TransactionsUnique(tbl[i], v) THEN v ELSE tbl[i]]
                   ELSE Append(tbl, v)
         IN InsertIgnore_Replace(t2, Tail(values))

\* a plain INSERT: every value becomes a row
InsertIgnore_Append(tbl, values) == tbl \o values

\* a row that hits the unique index gives its account_id to a stored row
\* that has none
RECURSIVE InsertIgnore_Attach(_, _)
InsertIgnore_Attach(tbl, values) ==
    IF values = <<>> THEN tbl
    ELSE LET v == Head(values)
             t2 == IF Conflicts(tbl, v)
                   THEN [i \in 1..Len(tbl) |->
                           IF TransactionsUnique(tbl[i], v) /\ tbl[i].account_id = <<>>
                           THEN [tbl[i] EXCEPT !.account_id = v.account_id]
                           ELSE tbl[i]]
                   ELSE Append(tbl, v)
         IN InsertIgnore_Attach(t2, Tail(values))

\* INSERT IGNORE INTO transactions (...) VALUES ?: the rows are inserted in
\* order; a row that hits the unique index is skipped
RECURSIVE InsertIgnore(_, _)
InsertIgnore(tbl, values) ==
    IF values = <<>> THEN tbl
    ELSE InsertIgnore(IF Conflicts(tbl, Head(values)) THEN tbl
                      ELSE Append(tbl, Head(values)),
                      Tail(values))

PushValues_KeyFromDate(userId, t) ==
    [user_id |-> userId, account_id |-> t.account_id,
     kftc_tran_id |-> t.transacted_at, transacted_at |-> t.transacted_at,
     original_content |-> t.original_content, amount |-> t.amount,
     balance_after |-> t.balance_after, type |-> t.type, method |-> t.method,
     store_name |-> t.store_name, category |-> t.category,
     is_excluded |-> Nullish(t.is_excluded, Some(FALSE))[1], memo |-> t.memo]

\* bank.ts:464-478: a client-supplied transaction as a row
PushValues(userId, t) ==
    [user_id |-> userId,
     account_id |-> t.account_id,
     kftc_tran_id |-> t.kftc_tran_id,
     transacted_at |-> t.transacted_at,
     original_content |-> t.original_content,
     amount |-> t.amount,
     balance_after |-> t.balance_after,
     type |-> t.type,
     method |-> t.method,
     store_name |-> t.store_name,
     category |-> t.category,
     is_excluded |-> Nullish(t.is_excluded, Some(FALSE))[1],
     memo |-> t.memo]

\* bank.ts:487-493, 544-550, 639-645
Summary(v) ==
    [kftc_tran_id |-> v.kftc_tran_id, transacted_at |-> v.transacted_at,
     store_name |-> v.store_name, category |-> v.category, amount |-> v.amount]

\* values.map((v) => ({...})): the transactions of the response
Summaries(values) == [i \in 1..Len(values) |-> Summary(values[i])]

\* the provider's marker of a deposit, '입금'
DEPOSIT_MARK == "ipgeum"

\* `${t.tran_time}` in a template literal
TimeText(t) == IF t.tran_time = None THEN <<"undefined">> ELSE t.tran_time[1]

kftcTranId_AlwaysSynth(t) ==
    t.tran_date \o <<"-">> \o TimeText(t) \o <<"-">>
        \o Nullish(t.printed_content, Some(<<>>))[1]
        \o <<"-">> \o <<ToString(t.tran_amt)>>

\* the key takes in the balance after the transaction as well
kftcTranId_WithBalance(t) ==
    IF t.tran_id # <<>> THEN t.tran_id
    ELSE t.tran_date \o <<"-">> \o TimeText(t) \o <<"-">>
            \o Nullish(t.printed_content, Some(<<>>))[1]
            \o <<"-">> \o <<ToString(t.tran_amt)>>
            \o (IF t.after_balance_amt = None THEN <<>>
                ELSE <<ToString(t.after_balance_amt[1])>>)

\* bank.ts:513, 610: t.tran_id || `${date}-${time}-${content ?? ''}-${amt}`
kftcTranId(t) ==
    IF t.tran_id # <<>> THEN t.tran_id
    ELSE t.tran_date \o <<"-">> \o TimeText(t) \o <<"-">>
            \o Nullish(t.printed_content, Some(<<>>))[1]
            \o <<"-">> \o <<ToString(t.tran_amt)>>

\* t.tran_time?.substring(2i-2, 2i) || '00'
TimePart(t, i) ==
    IF t.tran_time # None /\ Len(t.tran_time[1]) >= i
    THEN <<t.tran_time[1][i]>> ELSE <<"00">>

\* bank.ts:509-512
isoDate(t) ==
    t.tran_date \o <<"T">> \o TimePart(t, 1) \o <<":">> \o TimePart(t, 2)
        \o <<":">> \o TimePart(t, 3)

\* bank.ts:514, 611
TxType(t) == IF t.inout_type = DEPOSIT_MARK THEN "DEPOSIT" ELSE "WITHDRAW"

MapRaw_NoAccount(userId, accountId, t) ==
    [user_id |-> userId, account_id |-> None, kftc_tran_id |-> kftcTranId(t),
     transacted_at |-> isoDate(t), original_content |-> t.printed_content,
     amount |-> t.tran_amt, balance_after |-> t.after_balance_amt,
     type |-> TxType(t), method |-> None, store_name |-> t.printed_content,
     category |-> None, is_excluded |-> FALSE, memo |-> None]

\* bank.ts:508-531: a raw provider transaction of the account as a row
MapRaw(userId, accountId, t) ==
    [user_id |-> userId,
     account_id |-> accountId,
     kftc_tran_id |-> kftcTranId(t),
     transacted_at |-> isoDate(t),
     original_content |-> t.printed_content,
     amount |-> t.tran_amt,
     balance_after |-> t.after_balance_amt,
     type |-> TxType(t),
     method |-> None,
     store_name |-> t.printed_content,
     category |-> None,
     is_excluded |-> FALSE,
     memo |-> None]

\* connect asks for a handshake whose state the callback has accepted
ConnectStart_NeedsCallback(r, u, code, txs) ==
    /\ Free(r) /\ started < MaxReqs
    /\ started' = started + 1
    /\ LET q == [IdleReq EXCEPT !.kind = "connect", !.userId = u, !.txs = txs]
       IN req' = [req EXCEPT ![r] =
                 IF ~TruthyStr(code)
                 THEN Respond(q, 400, "kftcAuthCode is required", "")
                 ELSE IF lastCallback.status # 200
                 THEN Respond(q, 400, "invalid_or_expired_state", "")
                 ELSE IF ~assertEnv
                 THEN Respond(q, 502, "Failed to exchange kftcAuthCode",
                              "Missing required env vars")
                 ELSE [q EXCEPT !.pc = "exchange"]]
    /\ UNCHANGED <<now, missingEnv, nodeEnv, registryVars, dbVars>>

\* POST /bank/connect arrives (requireAuth has set req.user.id): lines 406-420
ConnectStart(r, u, code, txs) ==
    /\ Free(r) /\ started < MaxReqs
    /\ started' = started + 1
    /\ LET q == [IdleReq EXCEPT !.kind = "connect", !.userId = u, !.txs = txs]
       IN req' = [req EXCEPT ![r] =
                 IF ~TruthyStr(code)
                 THEN Respond(q, 400, "kftcAuthCode is required", "")
                 ELSE IF ~assertEnv
                 THEN Respond(q, 502, "Failed to exchange kftcAuthCode",
                              "Missing required env vars")
                 ELSE [q EXCEPT !.pc = "exchange"]]
    /\ UNCHANGED <<now, missingEnv, nodeEnv, registryVars, dbVars>>

InvalidKftcResponse_Never(resp) == FALSE

\* bank.ts:422, 428: the response carries no access_token
InvalidKftcResponse(resp) == ~TruthyStr(resp.access_token)

\* exchangeAuthCode answers: lines 420-434
ConnectExchange(r, resp) ==
    /\ req[r].pc = "exchange"
    /\ LET err == HttpError(resp, "KFTC token exchange failed",
                            "Failed to parse KFTC response")
       IN req' = [req EXCEPT ![r] =
                 IF err # None
                 THEN [Thrown(resp, Respond(@, 502, "Failed to exchange kftcAuthCode",
                                            err[1]))
                          EXCEPT !.exchanged = Some(resp)]
                 ELSE IF InvalidKftcResponse(resp)
                 THEN [Respond(@, 502, "invalid_kftc_response", "")
                          EXCEPT !.exchanged = Some(resp),
                                 !.upstream = Some(resp),
                                 !.rawBody = IF nodeEnv = "production" THEN None
                                             ELSE Some(resp.body)]
                 ELSE [@ EXCEPT
                    !.exchanged = Some(resp),
                    !.accessToken = resp.access_token,
                    !.refreshToken = resp.refresh_token,
                    !.userSeqNo = resp.user_seq_no,
                    !.expiresIn = ExpiresIn(resp.expires_in),
                    !.pc = "persist"]]
    /\ UNCHANGED <<now, missingEnv, nodeEnv, registryVars, dbVars, started>>

\* body.transactions is absent (None), an array, or a value of another type:
\* an object {"0": .., "length": n} that holds entries and a length
JsonArray(items) == Some([isArray |-> TRUE, items |-> items])
JsonObject(items) == Some([isArray |-> FALSE, items |-> items])

\* truthiness of such a value: arrays and objects are truthy
TruthyJson(t) == t # None

\* every array is pushed
PushMode_AnyArray(t) == TruthyJson(t) /\ t[1].isArray

\* bank.ts:462: transactions && Array.isArray(transactions) &&
\* transactions.length > 0
PushMode(t) == TruthyJson(t) /\ t[1].isArray /\ Len(t[1].items) > 0

\* one entry of calls
Call(name, idx) == [call |-> name, account |-> idx]

\* the UPDATE of lines 437-451 executes; line 462 chooses the mode
ConnectPersist(r) ==
    /\ req[r].pc = "persist"
    /\ users' = UpdateUserTokens(users, req[r].userId, req[r].accessToken,
                                 req[r].refreshToken, req[r].userSeqNo,
                                 req[r].expiresIn, now)
    /\ req' = [req EXCEPT ![r] =
                 IF PushMode(@.txs)
                 THEN LET items == req[r].txs[1].items
                      IN [@ EXCEPT !.pc = "push_insert",
                                !.wrote = Some(users'[req[r].userId]),
                                !.replaced = Some(users[req[r].userId]),
                                !.allValues = [i \in 1..Len(items) |->
                                    PushValues(req[r].userId, items[i])],
                                !.providerIds = {items[i].kftc_tran_id :
                                                    i \in 1..Len(items)}]
                 ELSE [@ EXCEPT !.pc = "userinfo",
                                !.calls = Append(@, Call("user-info", 0)),
                                !.wrote = Some(users'[req[r].userId]),
                                !.replaced = Some(users[req[r].userId])]]
    /\ UNCHANGED <<now, missingEnv, nodeEnv, registryVars, bank_accounts, transactions, started>>

\* the kftc_tran_id of the rows a statement added to the table
AddedKeys(before, after) ==
    {after[i].kftc_tran_id : i \in (Len(before) + 1)..Len(after)}

\* the provider transaction ids of a res_list
TranIds(list) == {list[i].tran_id : i \in 1..Len(list)} \ {<<>>}

\* whether some value of the statement meets a row stored before it
MeetsStored(tbl, values) == \E i \in 1..Len(values) : Conflicts(tbl, values[i])

\* the INSERT IGNORE of line 486 executes; the handler answers (lines 487-558)
ConnectPushInsert(r) ==
    /\ req[r].pc = "push_insert"
    /\ transactions' = InsertIgnore(transactions, req[r].allValues)
    /\ req' = [req EXCEPT ![r] =
                 [Respond(@, 200, "", "SYNC_COMPLETED") EXCEPT
                    !.respTxs = Summaries(req[r].allValues),
                    !.dupSeen = MeetsStored(transactions, req[r].allValues),
                    !.insertedKeys = AddedKeys(transactions, transactions')]]
    /\ UNCHANGED <<now, missingEnv, nodeEnv, registryVars, users, bank_accounts, started>>

\* acc.account_num || acc.fintech_use_num (bank.ts:331)
AccountKey(acc) ==
    IF TruthyStr(acc.account_num) THEN acc.account_num ELSE acc.fintech_use_num

\* the for loop of line 502 from account idx on, up to its next await: an
\* account without key and without fintech_use_num is passed over; after the
\* last account the rows are inserted, or, when there are none, the handler
\* answers at once (lines 536, 554)
RECURSIVE EnterLoop(_, _)
EnterLoop(q, idx) ==
    IF idx > Len(q.accounts)
    THEN IF Len(q.allValues) > 0
         THEN [q EXCEPT !.idx = idx, !.pc = "pull_insert"]
         ELSE [Respond(q, 200, "", "SYNC_COMPLETED") EXCEPT !.idx = idx]
    ELSE IF ~TruthyStr(AccountKey(q.accounts[idx]))
         THEN EnterLoop([q EXCEPT !.accountId = None], idx + 1)
         ELSE [q EXCEPT !.idx = idx, !.pc = "upsert_select",
                        !.calls = Append(@, Call("upsert-account", idx))]

\* after upsertBankAccount returned: lines 504-507
AfterUpsert(q) ==
    IF ~TruthyStr(q.accounts[q.idx].fintech_use_num)
    THEN EnterLoop(q, q.idx + 1)
    ELSE [q EXCEPT !.pc = "fetch_tx",
                   !.calls = Append(@, Call("transaction-list", q.idx))]

ConnectFailed(q, msg) == Respond(q, 502, "Failed to exchange kftcAuthCode", msg)

\* fetchKftcUserInfo answers: lines 496-497
ConnectUserInfo(r, resp) ==
    /\ req[r].pc = "userinfo"
    /\ LET err == HttpError(resp, "KFTC user info failed",
                            "Failed to parse KFTC user info")
       IN req' = [req EXCEPT ![r] =
                 IF err # None THEN Thrown(resp, ConnectFailed(@, err[1]))
                 ELSE [@ EXCEPT !.pc = "accounts",
                        !.calls = Append(@, Call("account-list", 0)),
                        !.bankName = IF TruthyStr(resp.bank_name)
                                     THEN resp.bank_name[1] ELSE @]]
    /\ UNCHANGED <<now, missingEnv, nodeEnv, registryVars, dbVars, started>>

\* fetchKftcAccounts answers: lines 499-502
ConnectAccounts(r, resp) ==
    /\ req[r].pc = "accounts"
    /\ LET err == HttpError(resp, "KFTC account list failed",
                            "Failed to parse KFTC account list")
       IN req' = [req EXCEPT ![r] =
                 IF err # None THEN Thrown(resp, ConnectFailed(@, err[1]))
                 ELSE EnterLoop([@ EXCEPT !.accounts = resp.res_list], 1)]
    /\ UNCHANGED <<now, missingEnv, nodeEnv, registryVars, dbVars, started>>

\* upsertBankAccount, the SELECT of lines 336-340 executes
ConnectUpsertSelect(r) ==
    /\ req[r].pc = "upsert_select"
    /\ LET key == AccountKey(req[r].accounts[req[r].idx])[1]
           found == {i \in 1..Len(bank_accounts) :
                        /\ bank_accounts[i].user_id = req[r].userId
                        /\ bank_accounts[i].account_num = key}
       IN req' = [req EXCEPT ![r] =
                 [@ EXCEPT !.pc = "upsert_write",
                    !.existing = IF found = {} THEN None
                                 ELSE Some(bank_accounts[
                                    CHOOSE i \in found : \A j \in found : i <= j].id)]]
    /\ UNCHANGED <<now, missingEnv, nodeEnv, registryVars, dbVars, started>>

\* upsertBankAccount, the UPDATE of line 342 or the INSERT of line 349
\* executes; an INSERT that hits the unique index throws
ConnectUpsertWrite(r) ==
    /\ req[r].pc = "upsert_write"
    /\ LET q == req[r]
           acc == q.accounts[q.idx]
           bankName == Nullish(acc.bank_name, Some("unknown"))[1]
           row == [id |-> Len(bank_accounts) + 1, user_id |-> q.userId,
                   bank_name |-> bankName, account_num |-> AccountKey(acc)[1],
                   balance |-> acc.balance_amt]
       IN IF TruthyNum(q.existing)
          THEN /\ bank_accounts' =
                    [i \in 1..Len(bank_accounts) |->
                        IF bank_accounts[i].id = q.existing[1]
                        THEN [bank_accounts[i] EXCEPT !.bank_name = bankName,
                                                      !.balance = acc.balance_amt]
                        ELSE bank_accounts[i]]
               /\ req' = [req EXCEPT ![r] =
                            AfterUpsert([q EXCEPT !.accountId = q.existing])]
          ELSE IF \E i \in 1..Len(bank_accounts) :
                      BankAccountsUnique(bank_accounts[i], row)
          THEN /\ bank_accounts' = bank_accounts
               /\ req' = [req EXCEPT ![r] = ConnectFailed(q, "ER_DUP_ENTRY")]
          ELSE /\ bank_accounts' = Append(bank_accounts, row)
               /\ req' = [req EXCEPT ![r] =
                            AfterUpsert([q EXCEPT !.accountId = Some(row.id),
                                                  !.created = @ \cup {row.id}])]
    /\ UNCHANGED <<now, missingEnv, nodeEnv, registryVars, users, transactions, started>>

\* fetchKftcTransactions answers: lines 507-533
ConnectFetchTx(r, resp) ==
    /\ req[r].pc = "fetch_tx"
    /\ LET err == HttpError(resp, "KFTC transactions failed",
                            "Failed to parse KFTC transactions")
           q == req[r]
           mapped == [i \in 1..Len(resp.res_list) |->
                        MapRaw(q.userId, q.accountId, resp.res_list[i])]
       IN req' = [req EXCEPT ![r] =
                 IF err # None THEN Thrown(resp, ConnectFailed(q, err[1]))
                 ELSE EnterLoop([q EXCEPT
                        !.allValues = @ \o mapped,
                        !.batchIds = @ \o [i \in 1..Len(mapped) |-> q.accountId],
                        !.providerIds = @ \cup TranIds(resp.res_list)],
                      q.idx + 1)]
    /\ UNCHANGED <<now, missingEnv, nodeEnv, registryVars, dbVars, started>>

\* the INSERT IGNORE of line 542 executes; the handler answers
ConnectPullInsert(r) ==
    /\ req[r].pc = "pull_insert"
    /\ transactions' = InsertIgnore(transactions, req[r].allValues)
    /\ req' = [req EXCEPT ![r] =
                 [Respond(@, 200, "", "SYNC_COMPLETED") EXCEPT
                    !.respTxs = Summaries(req[r].allValues),
                    !.dupSeen = MeetsStored(transactions, req[r].allValues),
                    !.insertedKeys = AddedKeys(transactions, transactions')]]
    /\ UNCHANGED <<now, missingEnv, nodeEnv, registryVars, users, bank_accounts, started>>

\* POST /bank/account arrives: lines 586-598
AccountStart(r, u, fintechUseNum) ==
    /\ Free(r) /\ started < MaxReqs
    /\ started' = started + 1
    /\ LET q == [IdleReq EXCEPT !.kind = "account", !.userId = u,
                                !.fintechUseNum = fintechUseNum]
       IN req' = [req EXCEPT ![r] =
                 IF ~TruthyStr(fintechUseNum)
                 THEN Respond(q, 400, "fintechUseNum_required", "")
                 ELSE [q EXCEPT !.pc = "ens_select"]]
    /\ UNCHANGED <<now, missingEnv, nodeEnv, registryVars, dbVars>>

AccountFailed(q, msg) == Respond(q, 502, "account_sync_failed", msg)

\* fetchKftcUserInfo answers: lines 601-602
AccountUserInfo(r, resp) ==
    /\ req[r].pc = "acc_userinfo"
    /\ LET err == HttpError(resp, "KFTC user info failed",
                            "Failed to parse KFTC user info")
       IN req' = [req EXCEPT ![r] =
                 IF err # None THEN Thrown(resp, AccountFailed(@, err[1]))
                 ELSE [@ EXCEPT !.pc = "acc_fetch",
                        !.bankName = IF TruthyStr(resp.bank_name)
                                     THEN resp.bank_name[1] ELSE "unknown"]]
    /\ UNCHANGED <<now, missingEnv, nodeEnv, registryVars, dbVars, started>>

\* line 609: t.tran_time.substring(2i-2, 2i), with no default
TimePartRaw(t, i) ==
    IF Len(t.tran_time[1]) >= i THEN <<t.tran_time[1][i]>> ELSE <<>>

\* bank.ts:608-628: a raw provider transaction as a row without account
MapRawAccount(userId, t) ==
    [user_id |-> userId,
     account_id |-> None,
     kftc_tran_id |-> kftcTranId(t),
     transacted_at |-> t.tran_date \o <<"T">> \o TimePartRaw(t, 1) \o <<":">>
                         \o TimePartRaw(t, 2) \o <<":">> \o TimePartRaw(t, 3),
     original_content |-> t.printed_content,
     amount |-> t.tran_amt,
     balance_after |-> t.after_balance_amt,
     type |-> TxType(t),
     method |-> None,
     store_name |-> t.printed_content,
     category |-> None,
     is_excluded |-> FALSE,
     memo |-> None]

\* fetchKftcTransactions answers: lines 605-630, 639-651
AccountFetchTx(r, resp) ==
    /\ req[r].pc = "acc_fetch"
    /\ LET err == HttpError(resp, "KFTC transactions failed",
                            "Failed to parse KFTC transactions")
           q == req[r]
       IN req' = [req EXCEPT ![r] =
                 IF err # None THEN Thrown(resp, AccountFailed(q, err[1]))
                 ELSE IF \E i \in 1..Len(resp.res_list) :
                            resp.res_list[i].tran_time = None
                 THEN AccountFailed([q EXCEPT !.providerIds = TranIds(resp.res_list)],
                                    "TypeError")
                 ELSE IF Len(resp.res_list) = 0
                 THEN Respond(q, 200, "", "SYNC_COMPLETED")
                 ELSE [q EXCEPT !.pc = "acc_insert",
                        !.allValues = [i \in 1..Len(resp.res_list) |->
                                          MapRawAccount(q.userId, resp.res_list[i])],
                        !.providerIds = TranIds(resp.res_list)]]
    /\ UNCHANGED <<now, missingEnv, nodeEnv, registryVars, dbVars, started>>

\* the INSERT IGNORE of line 636 executes; the handler answers
AccountInsert(r) ==
    /\ req[r].pc = "acc_insert"
    /\ transactions' = InsertIgnore(transactions, req[r].allValues)
    /\ req' = [req EXCEPT ![r] =
                 [Respond(@, 200, "", "SYNC_COMPLETED") EXCEPT
                    !.respTxs = Summaries(req[r].allValues),
                    !.dupSeen = MeetsStored(transactions, req[r].allValues),
                    !.insertedKeys = AddedKeys(transactions, transactions')]]
    /\ UNCHANGED <<now, missingEnv, nodeEnv, registryVars, users, bank_accounts, started>>

---------------------------------------------------------------------------
(* The provider and the clients *)

TokenResponse(status, parses, access, refresh, seq, expires) ==
    [status |-> status, parses |-> parses, body |-> "body1",
     access_token |-> access,
     refresh_token |-> refresh, user_seq_no |-> seq, expires_in |-> expires]

TokenFull == TokenResponse(200, TRUE, Some("A1"), Some("R1"), Some("U1"), Some(180))
TokenRenewed == TokenResponse(200, TRUE, Some("A2"), Some("R2"), Some("U2"), Some(180))
TokenShort == TokenResponse(200, TRUE, Some("A3"), None, None, Some(60))
TokenBare == TokenResponse(200, TRUE, Some("A4"), None, None, None)
TokenRejected == TokenResponse(400, TRUE, None, None, None, None)
TokenGarbled == TokenResponse(200, FALSE, None, None, None, None)
TokenNoAccess == TokenResponse(200, TRUE, None, Some("R9"), Some("U1"), Some(180))

UserInfoOk == [status |-> 200, parses |-> TRUE, body |-> "body1",
               bank_name |-> Some("KB")]
UserInfoDown == [status |-> 500, parses |-> TRUE, body |-> "body1",
                 bank_name |-> None]

AccA == [fintech_use_num |-> Some("F1"), bank_name |-> Some("KB"),
         account_num |-> Some("111"), balance_amt |-> Some(100)]
AccB == [fintech_use_num |-> Some("F2"), bank_name |-> None,
         account_num |-> None, balance_amt |-> None]

ListOk(list) == [status |-> 200, parses |-> TRUE, body |-> "body1",
                 res_list |-> list]
ListDown == [status |-> 500, parses |-> TRUE, body |-> "body1", res_list |-> <<>>]

\* the same response with another raw body
OtherBody(resp) == [resp EXCEPT !.body = "body2"]

\* P1 and P2 differ in tran_id alone; RawX has no tran_id
RawP1 == [tran_date |-> <<"20240101">>, tran_time |-> Some(<<"12", "30", "45">>),
          printed_content |-> Some(<<"coffee">>), tran_amt |-> 1000,
          after_balance_amt |-> Some(5000), inout_type |-> "chulgeum",
          tran_id |-> <<"P1">>]
RawP2 == [RawP1 EXCEPT !.tran_id = <<"P2">>]
RawP3 == [RawP1 EXCEPT !.tran_id = <<"P3">>, !.tran_amt = 250,
                       !.inout_type = DEPOSIT_MARK]
RawX == [tran_date |-> <<"20240102">>, tran_time |-> Some(<<"09", "00", "00">>),
         printed_content |-> None, tran_amt |-> 700,
         after_balance_amt |-> None, inout_type |-> DEPOSIT_MARK,
         tran_id |-> <<>>]

\* RawY has no tran_id either and the date, time, content and amount of RawX
RawY == [RawX EXCEPT !.after_balance_amt = Some(1), !.inout_type = "chulgeum"]

\* what a client pushes: Push1 and Push2 differ in kftc_tran_id alone, Push1b
\* has the key of Push1 and other values in the remaining fields
Push1 == [kftc_tran_id |-> <<"P1">>, transacted_at |-> <<"2024-01-01T00:00:00">>,
          original_content |-> None, amount |-> 1000, balance_after |-> None,
          type |-> "DEPOSIT", method |-> None, store_name |-> None,
          category |-> None, is_excluded |-> None, memo |-> None,
          account_id |-> None]
Push2 == [Push1 EXCEPT !.kftc_tran_id = <<"P2">>]
Push1b == [Push1 EXCEPT !.amount = 9999, !.type = "WITHDRAW",
                        !.category = Some("food"), !.is_excluded = Some(TRUE),
                        !.memo = Some("edited"), !.account_id = Some(1)]

\* the process has every required variable, or lacks one
EnvCases == {{}, {"KFTC_CLIENT_SECRET"}}

\* the row of a user whose connect stored a token set at instant 0, in an
\* earlier run of the process
ConnectedUserRow ==
    UpdateUserTokens([u \in {1} |-> NewUserRow], 1, Some("A0"), Some("R0"),
                     Some("U0"), Some(180), 0)[1]

InitDb(tbl) ==
    /\ missingEnv \in EnvCases
    /\ users = tbl
    /\ bank_accounts = <<>>
    /\ transactions = <<>>
    /\ req = [r \in Slots |-> IdleReq]
    /\ started = 0

---------------------------------------------------------------------------
(* SpecState: the state registry and its two routes; the clock advances by
   state lifetimes. *)

InitState == now = 0 /\ nodeEnv = "production" /\ InitRegistry /\ InitDb([u \in UserIds |-> NewUserRow])

NextState ==
    \/ AuthUrl
    \/ \E code \in CallbackCodes, state \in CallbackStates, scope \in CallbackScopes :
          Callback(code, state, scope)
    \/ (TickMs(STATE_TTL_MS) /\ UNCHANGED <<missingEnv, nodeEnv, registryVars, dbVars, req, started>>)
    \/ (TickStep(STATE_TTL_MS, MaxTtls) /\ UNCHANGED <<missingEnv, nodeEnv, registryVars, dbVars, req, started>>)

SpecState == InitState /\ [][NextState]_vars

---------------------------------------------------------------------------
(* SpecToken: the token lifecycle.  The provider knows no account and the
   clients push no transaction; the clock advances by minutes. *)

\* the clock of SpecToken runs up to MaxTokenMinutes minutes
MaxTokenMinutes == 2

MinuteMs == 60 * 1000

\* user 1 exists, never connected or connected by an earlier run; user 2
\* does not exist
InitToken ==
    /\ now = 0 /\ nodeEnv = "production" /\ InitRegistry
    /\ \E row \in {NewUserRow, ConnectedUserRow} : InitDb([u \in {1} |-> row])

NextToken ==
    \/ \E r \in Slots, u \in UserIds : AccessTokenStart(r, u)
    \/ \E r \in Slots : EnsSelect(r)
    \/ \E r \in Slots : EnsCheck(r)
    \/ \E r \in Slots, resp \in {TokenRenewed, TokenShort, TokenBare, TokenRejected,
                                 TokenGarbled, TokenNoAccess} : EnsRefresh(r, resp)
    \/ \E r \in Slots : EnsUpdate(r)
    \/ \E r \in Slots : ConnectStart(r, 1, Some("abc"), None)
    \/ \E r \in Slots, resp \in {TokenFull, TokenShort, TokenBare, TokenRejected} :
          ConnectExchange(r, resp)
    \/ \E r \in Slots : ConnectPersist(r)
    \/ \E r \in Slots : ConnectUserInfo(r, UserInfoOk)
    \/ \E r \in Slots : ConnectAccounts(r, ListOk(<<>>))
    \/ (TickMs(MinuteMs) /\ UNCHANGED <<missingEnv, nodeEnv, registryVars, dbVars, req, started>>)
    \/ (TickStep(MinuteMs, MaxTokenMinutes)
            /\ UNCHANGED <<missingEnv, nodeEnv, registryVars, dbVars, req, started>>)

SpecToken == InitToken /\ [][NextToken]_vars

\* the steps of a handler that wait for the database only: the pool answers
\* every statement
DatabaseSteps ==
    \E r \in Slots : EnsSelect(r) \/ EnsCheck(r) \/ EnsUpdate(r) \/ ConnectPersist(r)

\* SpecTokenLive: the token lifecycle with a database that always answers;
\* nothing obliges the provider to answer a fetch
SpecTokenLive == InitToken /\ [][NextToken]_vars /\ WF_vars(DatabaseSteps)

---------------------------------------------------------------------------
(* SpecIngest: the ingestion.  The provider answers every successful
   exchange with the same token set and time stands still, so that the
   stored token stays usable. *)

\* body.transactions of a connect request: absent, or an array of
\* transactions
PushLists == {None, JsonArray(<<Push1, Push2>>), JsonArray(<<Push1b>>)}
\* res_list of the provider's transaction list: a transaction belongs to
\* one account, P1 and P2 to F1 and P3 to F2
RawLists(fintechUseNum) ==
    IF fintechUseNum = Some("F1") THEN {<<>>, <<RawP1>>, <<RawP1, RawP2>>}
    ELSE {<<>>, <<RawP3>>}

\* the fintech_use_num of the transaction list request r is waiting for
Asked(r) ==
    IF req[r].pc = "fetch_tx" THEN req[r].accounts[req[r].idx].fintech_use_num
    ELSE req[r].fintechUseNum
\* res_list of the provider's account list
AccountLists == {<<AccA>>, <<AccA, AccB>>}

InitIngest == now = 0 /\ nodeEnv = "production" /\ InitRegistry /\ InitDb([u \in UserIds |-> NewUserRow])

NextIngest ==
    \/ \E r \in Slots, u \in UserIds, code \in {None, Some("abc")}, txs \in PushLists :
          ConnectStart(r, u, code, txs)
    \/ \E r \in Slots, resp \in {TokenFull, TokenRejected, TokenGarbled, TokenNoAccess} :
          ConnectExchange(r, resp)
    \/ \E r \in Slots : ConnectPersist(r)
    \/ \E r \in Slots : ConnectPushInsert(r)
    \/ \E r \in Slots, resp \in {UserInfoOk, UserInfoDown} : ConnectUserInfo(r, resp)
    \/ \E r \in Slots, resp \in {ListOk(l) : l \in AccountLists} \cup {ListDown} :
          ConnectAccounts(r, resp)
    \/ \E r \in Slots : ConnectUpsertSelect(r)
    \/ \E r \in Slots : ConnectUpsertWrite(r)
    \/ \E r \in Slots : \E resp \in {ListOk(l) : l \in RawLists(Asked(r))} \cup {ListDown} :
          ConnectFetchTx(r, resp)
    \/ \E r \in Slots : ConnectPullInsert(r)
    \/ \E r \in Slots, u \in UserIds, f \in {None, Some("F1")} : AccountStart(r, u, f)
    \/ \E r \in Slots : EnsSelect(r)
    \/ \E r \in Slots : EnsCheck(r)
    \/ \E r \in Slots, resp \in {UserInfoOk, UserInfoDown} : AccountUserInfo(r, resp)
    \/ \E r \in Slots : \E resp \in {ListOk(l) : l \in RawLists(Asked(r))} \cup {ListDown} :
          AccountFetchTx(r, resp)
    \/ \E r \in Slots : AccountInsert(r)

SpecIngest == InitIngest /\ [][NextIngest]_vars

---------------------------------------------------------------------------
(* SpecSynth: the provider's transactions carry no tran_id.  User 1 pulls
   them by connect, over one or two accounts, and by the account sync. *)

\* res_list of the provider's transaction list, for every account
SynthLists == {<<RawX>>, <<RawY>>, <<RawX, RawY>>}

NextSynth ==
    \/ \E r \in Slots : ConnectStart(r, 1, Some("abc"), None)
    \/ \E r \in Slots : ConnectExchange(r, TokenFull)
    \/ \E r \in Slots : ConnectPersist(r)
    \/ \E r \in Slots : ConnectUserInfo(r, UserInfoOk)
    \/ \E r \in Slots, l \in AccountLists : ConnectAccounts(r, ListOk(l))
    \/ \E r \in Slots : ConnectUpsertSelect(r)
    \/ \E r \in Slots : ConnectUpsertWrite(r)
    \/ \E r \in Slots, l \in SynthLists : ConnectFetchTx(r, ListOk(l))
    \/ \E r \in Slots : ConnectPullInsert(r)
    \/ \E r \in Slots : AccountStart(r, 1, Some("F1"))
    \/ \E r \in Slots : EnsSelect(r)
    \/ \E r \in Slots : EnsCheck(r)
    \/ \E r \in Slots : AccountUserInfo(r, UserInfoOk)
    \/ \E r \in Slots, l \in SynthLists : AccountFetchTx(r, ListOk(l))
    \/ \E r \in Slots : AccountInsert(r)

SpecSynth == InitIngest /\ [][NextSynth]_vars

---------------------------------------------------------------------------
(* SpecNormalize: user 1 pulls the transactions of one account by connect
   and by the account sync; some records of the provider come without
   tran_time, or with a tran_time of two characters. *)

\* N1 has no tran_time, S1 has the hours alone
RawN1 == [RawP1 EXCEPT !.tran_id = <<"N1">>, !.tran_time = None]
RawS1 == [RawP3 EXCEPT !.tran_id = <<"S1">>, !.tran_time = Some(<<"09">>)]

\* res_list of the provider's transaction list
NormLists == {<<RawP1>>, <<RawP3>>, <<RawN1>>, <<RawS1>>, <<RawP1, RawN1>>}

NextNormalize ==
    \/ \E r \in Slots : ConnectStart(r, 1, Some("abc"), None)
    \/ \E r \in Slots : ConnectExchange(r, TokenFull)
    \/ \E r \in Slots : ConnectPersist(r)
    \/ \E r \in Slots : ConnectUserInfo(r, UserInfoOk)
    \/ \E r \in Slots : ConnectAccounts(r, ListOk(<<AccA>>))
    \/ \E r \in Slots : ConnectUpsertSelect(r)
    \/ \E r \in Slots : ConnectUpsertWrite(r)
    \/ \E r \in Slots, l \in NormLists : ConnectFetchTx(r, ListOk(l))
    \/ \E r \in Slots : ConnectPullInsert(r)
    \/ \E r \in Slots : AccountStart(r, 1, Some("F1"))
    \/ \E r \in Slots : EnsSelect(r)
    \/ \E r \in Slots : EnsCheck(r)
    \/ \E r \in Slots : AccountUserInfo(r, UserInfoOk)
    \/ \E r \in Slots, l \in NormLists : AccountFetchTx(r, ListOk(l))
    \/ \E r \in Slots : AccountInsert(r)

SpecNormalize == InitIngest /\ [][NextNormalize]_vars

---------------------------------------------------------------------------
(* SpecUsers: two users, each with a stored token set inside the buffer
   window, connect, refresh and sync the same provider data. *)

InitUsers ==
    /\ now = 2 * MinuteMs /\ nodeEnv = "production" /\ InitRegistry
    /\ InitDb([u \in UserIds |-> ConnectedUserRow])

NextUsers ==
    \/ \E r \in Slots, u \in UserIds, txs \in {None, JsonArray(<<Push1>>)} :
          ConnectStart(r, u, Some("abc"), txs)
    \/ \E r \in Slots : ConnectExchange(r, TokenFull)
    \/ \E r \in Slots : ConnectPersist(r)
    \/ \E r \in Slots : ConnectPushInsert(r)
    \/ \E r \in Slots : ConnectUserInfo(r, UserInfoOk)
    \/ \E r \in Slots : ConnectAccounts(r, ListOk(<<AccA>>))
    \/ \E r \in Slots : ConnectUpsertSelect(r)
    \/ \E r \in Slots : ConnectUpsertWrite(r)
    \/ \E r \in Slots : ConnectFetchTx(r, ListOk(<<RawP1>>))
    \/ \E r \in Slots : ConnectPullInsert(r)
    \/ \E r \in Slots, u \in UserIds : AccessTokenStart(r, u)
    \/ \E r \in Slots, u \in UserIds : AccountStart(r, u, Some("F1"))
    \/ \E r \in Slots : EnsSelect(r)
    \/ \E r \in Slots : EnsCheck(r)
    \/ \E r \in Slots, resp \in {TokenRenewed, TokenBare} : EnsRefresh(r, resp)
    \/ \E r \in Slots : EnsUpdate(r)
    \/ \E r \in Slots : AccountUserInfo(r, UserInfoOk)
    \/ \E r \in Slots : AccountFetchTx(r, ListOk(<<RawP1>>))
    \/ \E r \in Slots : AccountInsert(r)

SpecUsers == InitUsers /\ [][NextUsers]_vars

---------------------------------------------------------------------------
(* SpecRegistry: the handshake next to the other routes.  States are issued;
   s1 is presented to the callback and s2 never is, while user 1 connects,
   asks for the access token and syncs an account. *)

NextRegistry ==
    \/ AuthUrl
    \/ Callback(Some("code"), Some("s1"), None)
    \/ (TickMs(STATE_TTL_MS) /\ UNCHANGED <<missingEnv, nodeEnv, registryVars, dbVars, req, started>>)
    \/ (TickStep(STATE_TTL_MS, MaxTtls) /\ UNCHANGED <<missingEnv, nodeEnv, registryVars, dbVars, req, started>>)
    \/ \E r \in Slots : ConnectStart(r, 1, Some("abc"), JsonArray(<<Push1>>))
    \/ \E r \in Slots, resp \in {TokenFull, TokenRejected} : ConnectExchange(r, resp)
    \/ \E r \in Slots : ConnectPersist(r)
    \/ \E r \in Slots : ConnectPushInsert(r)
    \/ \E r \in Slots : AccessTokenStart(r, 1)
    \/ \E r \in Slots : AccountStart(r, 1, Some("F1"))
    \/ \E r \in Slots : EnsSelect(r)
    \/ \E r \in Slots : EnsCheck(r)
    \/ \E r \in Slots : EnsRefresh(r, TokenRenewed)
    \/ \E r \in Slots : EnsUpdate(r)
    \/ \E r \in Slots : AccountUserInfo(r, UserInfoOk)
    \/ \E r \in Slots : AccountFetchTx(r, ListOk(<<RawP1>>))
    \/ \E r \in Slots : AccountInsert(r)

SpecRegistry == InitState /\ [][NextRegistry]_vars

---------------------------------------------------------------------------
(* SpecMode: connect with every shape of body.transactions *)

\* body.transactions: absent, an empty array, an object that is no array,
\* or an array of transactions
Bodies == PushLists \cup {JsonArray(<<>>), JsonObject(<<Push1>>)}

NextMode ==
    \/ \E r \in Slots, txs \in Bodies : ConnectStart(r, 1, Some("abc"), txs)
    \/ \E r \in Slots, resp \in {TokenFull, TokenRejected} : ConnectExchange(r, resp)
    \/ \E r \in Slots : ConnectPersist(r)
    \/ \E r \in Slots : ConnectPushInsert(r)
    \/ \E r \in Slots, resp \in {UserInfoOk, UserInfoDown} : ConnectUserInfo(r, resp)
    \/ \E r \in Slots, resp \in {ListOk(l) : l \in AccountLists} \cup {ListDown} :
          ConnectAccounts(r, resp)
    \/ \E r \in Slots : ConnectUpsertSelect(r)
    \/ \E r \in Slots : ConnectUpsertWrite(r)
    \/ \E r \in Slots : \E resp \in {ListOk(l) : l \in RawLists(Asked(r))} \cup {ListDown} :
          ConnectFetchTx(r, resp)
    \/ \E r \in Slots : ConnectPullInsert(r)

SpecMode == InitIngest /\ [][NextMode]_vars

---------------------------------------------------------------------------
(* SpecLeak: failing provider calls.  User 1 holds a token set that is
   inside the buffer window, the provider rejects calls with either of two
   raw bodies, and the process runs with or without NODE_ENV=production. *)

NodeEnvs == {"production", "development"}

\* a failing response with each of the two raw bodies
Failing(resp) == {resp, OtherBody(resp)}

InitLeak ==
    /\ now = 2 * MinuteMs /\ nodeEnv \in NodeEnvs /\ InitRegistry
    /\ InitDb([u \in {1} |-> ConnectedUserRow])

NextLeak ==
    \/ \E r \in Slots : ConnectStart(r, 1, Some("abc"), None)
    \/ \E r \in Slots, resp \in {TokenFull} \cup Failing(TokenRejected)
                                  \cup Failing(TokenNoAccess) :
          ConnectExchange(r, resp)
    \/ \E r \in Slots : ConnectPersist(r)
    \/ \E r \in Slots, resp \in Failing(UserInfoDown) : ConnectUserInfo(r, resp)
    \/ \E r \in Slots : AccessTokenStart(r, 1)
    \/ \E r \in Slots : AccountStart(r, 1, Some("F1"))
    \/ \E r \in Slots : EnsSelect(r)
    \/ \E r \in Slots : EnsCheck(r)
    \/ \E r \in Slots, resp \in Failing(TokenRejected) : EnsRefresh(r, resp)
    \/ \E r \in Slots, resp \in Failing(UserInfoDown) : AccountUserInfo(r, resp)

SpecLeak == InitLeak /\ [][NextLeak]_vars

---------------------------------------------------------------------------
(* Properties of the state registry (SpecState) *)

Expiry(s) == issuedAt[s] + STATE_TTL_MS

\* C1: a registered state token validates successfully at most once: the first
\* validation succeeds when it happens within the TTL, and every validation
\* after the first one fails.
C1_SingleUse ==
    \A s \in DOMAIN validations :
        LET v == validations[s] IN
        /\ Cardinality({i \in 1..Len(v) : v[i].result}) <= 1
        /\ (Len(v) >= 1 /\ v[1].at <= Expiry(s)) => v[1].result
        /\ \A i \in 2..Len(v) : ~v[i].result

C1_Witness ==
    \E s \in DOMAIN validations :
        /\ Len(validations[s]) >= 2
        /\ validations[s][1].result
        /\ validations[s][2].at <= Expiry(s)

\* C2: a token registered at t expires at t + 10 minutes; a validation of a
\* registered token strictly after the expiry fails, one at or before the
\* expiry succeeds, either one removes the token, and a validation of a
\* removed token fails.
C2_Expiry ==
    /\ \A s \in DOMAIN stateStore :
          stateStore[s] = issuedAt[s] + 10 * 60 * 1000
    /\ \A s \in DOMAIN validations :
          LET v == validations[s] IN
          /\ Len(v) >= 1 => s \notin DOMAIN stateStore
          /\ \A i \in 1..Len(v) :
                /\ (v[i].present /\ v[i].at > Expiry(s)) => ~v[i].result
                /\ (v[i].present /\ v[i].at <= Expiry(s)) => v[i].result
                /\ ~v[i].present => ~v[i].result
                /\ v[i].present <=> i = 1

C2_Witness ==
    \E s \in DOMAIN validations :
        /\ Len(validations[s]) >= 2
        /\ validations[s][1].at > Expiry(s)
        /\ ~validations[s][1].result
        /\ ~validations[s][2].result
        /\ s \notin DOMAIN stateStore

---------------------------------------------------------------------------
(* Properties of the token lifecycle (SpecToken) *)

\* the requests whose ensureKftcAccessToken has looked at the stored token
Checked == {r \in Slots : req[r].checkedAt # None}

\* the token row the request read holds an access token whose expiry is more
\* than two minutes after the instant of the check
FreshAtCheck(r) ==
    LET row == req[r].row[1] IN
    /\ row.kftc_access_token # None
    /\ row.kftc_token_expires_at # None
    /\ row.kftc_token_expires_at[1] > req[r].checkedAt[1] + 2 * 60 * 1000

HasRefreshToken(r) == req[r].row[1].kftc_refresh_token # None

\* C3 as stated: no refresh call when the stored token is fresh, exactly one
\* refresh call whenever it is within the buffer window, expired or absent.
C3_AsStated ==
    \A r \in Checked :
        /\ FreshAtCheck(r) => req[r].refreshCalls = 0
        /\ ~FreshAtCheck(r) => req[r].refreshCalls = 1

\* C3 (amended): no refresh call when the stored token is fresh; exactly one
\* refresh call when it is within the buffer window, expired or absent, a
\* refresh token is stored and the required KFTC_* variables are set; when no
\* refresh token is stored, or a variable is missing, no refresh call is made
\* and the call fails (refresh_token_missing, Missing required env vars).
C3_RefreshCalls ==
    \A r \in Checked :
        /\ FreshAtCheck(r) => req[r].refreshCalls = 0
        /\ (~FreshAtCheck(r) /\ HasRefreshToken(r) /\ missingEnv = {})
              => req[r].refreshCalls = 1
        /\ (~FreshAtCheck(r) /\ ~HasRefreshToken(r)) =>
              /\ req[r].refreshCalls = 0
              /\ req[r].pc = "done"
              /\ req[r].detail = "refresh_token_missing"
        /\ (~FreshAtCheck(r) /\ HasRefreshToken(r) /\ missingEnv # {}) =>
              /\ req[r].refreshCalls = 0
              /\ req[r].pc = "done"
              /\ req[r].detail = "Missing required env vars"

\* a token inside the buffer window, not yet expired, refreshed by one call
\* that was answered and stored
C3_Witness ==
    \E r \in Checked :
        /\ ~FreshAtCheck(r)
        /\ req[r].row[1].kftc_access_token # None
        /\ req[r].row[1].kftc_token_expires_at[1] > req[r].checkedAt[1]
        /\ req[r].refreshCalls = 1
        /\ req[r].pc = "done" /\ req[r].status = 200

---------------------------------------------------------------------------
(* Properties of the ingestion (SpecIngest) *)

\* the stored rows of user u with dedup key k
Rows(u, k) ==
    {i \in 1..Len(transactions) :
        transactions[i].user_id = u /\ transactions[i].kftc_tran_id = k}

RowsOf(u) == {i \in 1..Len(transactions) : transactions[i].user_id = u}

\* the requests that ingested their batch and answered 200
Ingested == {r \in Slots : /\ req[r].kind \in {"connect", "account"}
                           /\ req[r].pc = "done" /\ req[r].status = 200}

\* the provider transaction ids ingested for user u by the requests at hand
IngestedIds(u) ==
    UNION {req[r].providerIds : r \in {x \in Ingested : req[x].userId = u}}

\* C4: the transaction store holds at most one row per user and provider
\* transaction id, and a provider transaction id that a request has ingested
\* for a user, however often, has exactly one stored row.
C4_OneRowPerProviderId ==
    /\ \A i, j \in 1..Len(transactions) :
          (/\ transactions[i].user_id = transactions[j].user_id
           /\ transactions[i].kftc_tran_id = transactions[j].kftc_tran_id) => i = j
    /\ \A u \in UserIds : \A id \in IngestedIds(u) : Cardinality(Rows(u, id)) = 1

\* two requests ingested P1 for user 1, one of them finding it stored
C4_Witness ==
    /\ \A r \in Slots : /\ r \in Ingested /\ req[r].userId = 1
                         /\ <<"P1">> \in req[r].providerIds
    /\ \E r \in Slots : req[r].dupSeen
    /\ Cardinality(Rows(1, <<"P1">>)) = 1

\* C5: the distinct provider transaction ids ingested for a user each have
\* a stored row of their own, whatever the other fields are: the user has at
\* least as many rows as ids were ingested.
C5_DistinctIdsDistinctRows ==
    \A u \in UserIds :
        /\ \A id \in IngestedIds(u) : Rows(u, id) # {}
        /\ \A id1, id2 \in IngestedIds(u) :
              id1 # id2 => Rows(u, id1) \cap Rows(u, id2) = {}
        /\ Cardinality(RowsOf(u)) >= Cardinality(IngestedIds(u))

\* all fields of a row but its dedup key
OtherFields(row) == [row EXCEPT !.kftc_tran_id = <<>>]

\* P1 and P2, equal in every other field, are stored for user 1, ingested in
\* one batch
C5_Witness ==
    \E r \in Ingested, i, j \in 1..Len(transactions) :
        /\ {<<"P1">>, <<"P2">>} \subseteq req[r].providerIds
        /\ req[r].userId = 1
        /\ i \in Rows(1, <<"P1">>) /\ j \in Rows(1, <<"P2">>)
        /\ OtherFields(transactions[i]) = OtherFields(transactions[j])

\* the pull-mode connects that answered 200
Pulled == {r \in Ingested : req[r].kind = "connect" /\ req[r].batchIds # <<>>}

\* the bank_accounts rows with the user and account number of row id
SameAccount(id) ==
    {i \in 1..Len(bank_accounts) :
        \E j \in 1..Len(bank_accounts) :
            /\ bank_accounts[j].id = id
            /\ bank_accounts[i].user_id = bank_accounts[j].user_id
            /\ bank_accounts[i].account_num = bank_accounts[j].account_num}

\* the stored row with the dedup key of the k-th value of request r
StoredFor(r, k) ==
    transactions[CHOOSE i \in 1..Len(transactions) :
                    i \in Rows(req[r].userId, req[r].allValues[k].kftc_tran_id)]

\* the k-th value of request r belongs to the batch of an account that the
\* request inserted as a new bank_accounts row
InNewAccountBatch(r, k) ==
    req[r].batchIds[k] # None /\ req[r].batchIds[k][1] \in req[r].created

\* C6 as stated: a pull-mode connect that meets an unseen account number
\* creates exactly one BankAccount row for it, and every stored transaction
\* of that account's batch references that row.
C6_AsStated ==
    \A r \in Pulled :
        /\ \A id \in req[r].created : Cardinality(SameAccount(id)) = 1
        /\ \A k \in 1..Len(req[r].allValues) :
              InNewAccountBatch(r, k) =>
                  StoredFor(r, k).account_id = req[r].batchIds[k]

\* the k-th value of request r is the one its INSERT stored: its key was
\* added by the statement and does not occur earlier in the statement
InsertedFrom(r, k) ==
    /\ req[r].allValues[k].kftc_tran_id \in req[r].insertedKeys
    /\ \A j \in 1..(k - 1) :
          req[r].allValues[j].kftc_tran_id # req[r].allValues[k].kftc_tran_id

\* C6 (amended): a pull-mode connect that meets an unseen account number
\* creates exactly one BankAccount row for it, and every transaction row
\* that the request inserts from that account's batch references that row; a
\* transaction of the batch whose dedup key is already stored, or occurs
\* earlier in the same INSERT, has a stored row as well, which keeps the
\* account id it was first stored with.
C6_NewAccountBatch ==
    \A r \in Pulled :
        /\ \A id \in req[r].created : Cardinality(SameAccount(id)) = 1
        /\ \A k \in 1..Len(req[r].allValues) :
              InNewAccountBatch(r, k) =>
                  /\ Cardinality(Rows(req[r].userId,
                                      req[r].allValues[k].kftc_tran_id)) = 1
                  /\ InsertedFrom(r, k) =>
                        StoredFor(r, k).account_id = req[r].batchIds[k]

\* a connect created an account row and inserted a transaction of its batch
C6_Witness ==
    \E r \in Pulled : \E k \in 1..Len(req[r].allValues) :
        /\ InNewAccountBatch(r, k)
        /\ InsertedFrom(r, k)
        /\ StoredFor(r, k).account_id = req[r].batchIds[k]
        /\ Len(bank_accounts) >= 1

\* C7 as stated: at most one BankAccount row per user and account number, and
\* no connect request fails because another request inserted the row first.
C7_AsStated ==
    /\ \A i, j \in 1..Len(bank_accounts) :
          (/\ bank_accounts[i].user_id = bank_accounts[j].user_id
           /\ bank_accounts[i].account_num = bank_accounts[j].account_num) => i = j
    /\ \A r \in Slots :
          ~(req[r].pc = "done" /\ req[r].detail = "ER_DUP_ENTRY")

\* every row stored before a step is the same row after it
RowsKept ==
    /\ Len(transactions') >= Len(transactions)
    /\ \A i \in 1..Len(transactions) : transactions'[i] = transactions[i]

\* C8: an ingestion that meets a stored dedup key answers 200, and no step
\* of any ingestion changes a field of a row stored before it.
C8_DuplicateIsSkipped ==
    /\ [](\A r \in Slots : req[r].dupSeen => req[r].status = 200)
    /\ [][RowsKept]_vars

\* a request met the stored row of its key, and the stored row differs from
\* the value the request brought
C8_Witness ==
    \E r \in Slots : \E k \in 1..Len(req[r].allValues) :
        /\ req[r].dupSeen
        /\ Rows(req[r].userId, req[r].allValues[k].kftc_tran_id) # {}
        /\ StoredFor(r, k) # req[r].allValues[k]
        /\ StoredFor(r, k).amount # req[r].allValues[k].amount

\* the provider's answer to the code exchange is a failure: a non-2xx
\* status, an unparsable body, or a body without access_token
ExchangeFailed(resp) ==
    \/ resp.status \notin 200..299
    \/ ~resp.parses
    \/ resp.access_token = None

FailedExchange(q) ==
    q.kind = "connect" /\ q.exchanged # None /\ ExchangeFailed(q.exchanged[1])

\* C9: a connect whose code exchange fails has answered 502 at once, and the
\* step that receives the failure writes neither the users table nor a bank
\* account nor a transaction.
C9_FailedExchangeWritesNothing ==
    /\ [](\A r \in Slots :
            FailedExchange(req[r]) => req[r].pc = "done" /\ req[r].status = 502)
    /\ [][\A r \in Slots :
            (req[r].pc = "exchange" /\ FailedExchange(req'[r]))
                => dbVars' = dbVars]_vars

\* a user with a stored token set, and a connect of that user that got a
\* response without access_token
C9_Witness ==
    \E r \in Slots :
        /\ FailedExchange(req[r])
        /\ req[r].exchanged[1].status = 200 /\ req[r].exchanged[1].parses
        /\ users[req[r].userId].kftc_access_token # None
        /\ req[r].status = 502

\* C10 as stated: when a pull-mode connect fails fetching an account's
\* transactions after it fetched those of an earlier account, the earlier
\* account's transactions are stored.
C10_AsStated ==
    \A r \in Slots :
        (/\ req[r].kind = "connect" /\ req[r].pc = "done"
         /\ req[r].detail = "KFTC transactions failed")
        => \A k \in 1..Len(req[r].allValues) :
              Rows(req[r].userId, req[r].allValues[k].kftc_tran_id) # {}

---------------------------------------------------------------------------
(* Further properties of the ingestion (SpecIngest) *)

\* the push-mode connects that answered 200
Pushed == {r \in Ingested : /\ req[r].kind = "connect"
                            /\ req[r].allValues # <<>> /\ req[r].batchIds = <<>>}

\* two push-mode connects of one user that brought the same transactions
SameCall(r1, r2) ==
    /\ r1 # r2
    /\ req[r1].userId = req[r2].userId
    /\ req[r1].allValues = req[r2].allValues

\* C11: of two identical push-mode connects whose exchange was accepted, the
\* one that inserts second adds no row, every transaction of the call has
\* exactly one stored row, and both answer 200 SYNC_COMPLETED with the same
\* bank name and the same transaction summaries.
C11_PushIdempotent ==
    \A r1, r2 \in Pushed :
        SameCall(r1, r2) =>
            /\ req[r1].insertedKeys = {} \/ req[r2].insertedKeys = {}
            /\ \A k \in 1..Len(req[r1].allValues) :
                  Cardinality(Rows(req[r1].userId,
                                   req[r1].allValues[k].kftc_tran_id)) = 1
            /\ req[r1].status = 200 /\ req[r2].status = 200
            /\ req[r1].detail = "SYNC_COMPLETED" /\ req[r2].detail = "SYNC_COMPLETED"
            /\ req[r1].bankName = req[r2].bankName
            /\ req[r1].respTxs = req[r2].respTxs
            /\ Len(req[r1].respTxs) = Len(req[r1].allValues)

\* the first call stored P1 and P2, the second met both and added nothing
C11_Witness ==
    \E r1, r2 \in Pushed :
        /\ SameCall(r1, r2)
        /\ req[r1].insertedKeys = {<<"P1">>, <<"P2">>}
        /\ req[r2].insertedKeys = {} /\ req[r2].dupSeen
        /\ Len(req[r2].respTxs) = 2

---------------------------------------------------------------------------
(* Further properties of the token lifecycle (SpecToken) *)

\* the requests whose UPDATE of the users row has executed
Writers == {r \in Slots : req[r].wrote # None}

\* the one provider response a writer's token set was taken from
ResponseOf(r) ==
    IF req[r].kind = "connect" THEN req[r].exchanged[1] ELSE req[r].refreshed[1]

\* C12 as stated: every token set a request persisted has the access token
\* of one provider response and the refresh token of that response or, when
\* the response had none, the refresh token that was stored immediately
\* before the write.
C12_AsStated ==
    \A r \in Writers :
        /\ req[r].wrote[1].kftc_access_token = ResponseOf(r).access_token
        /\ req[r].wrote[1].kftc_refresh_token =
              IF ResponseOf(r).refresh_token # None
              THEN ResponseOf(r).refresh_token
              ELSE req[r].replaced[1].kftc_refresh_token

\* the requests whose ensureKftcAccessToken refreshed and stored the token
Refreshers == {r \in Writers : req[r].kind # "connect"}

\* C13: the token set a successful refresh stores has the response's access
\* token, the response's refresh token if present else the one the call
\* read from the store, the response's user_seq_no if present else the one
\* the call read, and the value returned is the stored access token.
C13_RefreshStores ==
    \A r \in Refreshers :
        LET resp == req[r].refreshed[1]
            old == req[r].row[1]
            new == req[r].wrote[1]
        IN /\ new.kftc_access_token = resp.access_token
           /\ new.kftc_refresh_token =
                 IF resp.refresh_token # None THEN resp.refresh_token
                 ELSE old.kftc_refresh_token
           /\ new.kftc_user_seq_no =
                 IF resp.user_seq_no # None THEN resp.user_seq_no
                 ELSE old.kftc_user_seq_no
           /\ req[r].accessToken = new.kftc_access_token
           /\ req[r].kind = "access-token" => req[r].status = 200

\* a refresh answered with an access token alone: the stored refresh token
\* and user_seq_no are kept and the new access token is returned
C13_Witness ==
    \E r \in Refreshers :
        /\ req[r].refreshed[1].refresh_token = None
        /\ req[r].refreshed[1].user_seq_no = None
        /\ req[r].wrote[1].kftc_refresh_token = Some("R0")
        /\ req[r].wrote[1].kftc_user_seq_no = Some("U0")
        /\ req[r].accessToken = Some("A4")
        /\ req[r].status = 200

---------------------------------------------------------------------------
(* Further properties of the state registry (SpecState) *)

\* the request of the last callback names a state that was registered, has
\* not been validated before and is not past its expiry at this instant
UsableState(c) ==
    /\ c.state # None
    /\ c.state[1] \in DOMAIN issuedAt
    /\ validations[c.state[1]] = <<>>
    /\ now <= issuedAt[c.state[1]] + 10 * 60 * 1000

\* a step that answers a callback: no state is registered, and the response
\* or the record of validations changes
CallbackAnswered ==
    /\ issuedAt' = issuedAt
    /\ lastCallback' # lastCallback \/ validations' # validations

\* C14: a callback is answered 200 with the code, the scope and the state
\* exactly when code and state are present and the state is registered,
\* unexpired and not yet consumed; otherwise it is answered 400, with
\* invalid_or_expired_state when code and state are present.
C14_CallbackAnswer ==
    [][CallbackAnswered =>
        LET c == lastCallback'
            present(o) == o # None /\ o[1] # ""
        IN IF present(c.code) /\ present(c.state) /\ UsableState(c)
           THEN /\ c.status = 200
                /\ c.body # None
                /\ c.body[1].kftcAuthCode = c.code[1]
                /\ c.body[1].state = c.state[1]
                /\ c.body[1].scope = IF present(c.scope) THEN c.scope[1]
                                      ELSE "login transfer"
           ELSE /\ c.status = 400
                /\ c.body = None
                /\ (present(c.code) /\ present(c.state))
                      => c.error = "invalid_or_expired_state"]_vars

\* callbacks were refused for a consumed state and for an expired one
C14_Witness ==
    /\ lastCallback.status = 400
    /\ lastCallback.error = "invalid_or_expired_state"
    /\ \E s \in DOMAIN validations :
          /\ Len(validations[s]) >= 2
          /\ validations[s][1].result
    /\ \E s \in DOMAIN validations :
          /\ Len(validations[s]) >= 1
          /\ validations[s][1].at > Expiry(s)
          /\ ~validations[s][1].result

---------------------------------------------------------------------------
(* Error surfacing (SpecToken) *)

\* the messages of the errors thrown for a non-2xx provider response
UpstreamFailures ==
    {"KFTC token exchange failed", "KFTC token refresh failed",
     "KFTC user info failed", "KFTC account list failed",
     "KFTC transactions failed"}

\* C15 as stated: a request that met a non-2xx provider response is answered
\* 502, in connect, access-token and account alike.
C15_AsStated ==
    \A r \in Slots :
        (req[r].pc = "done" /\ req[r].detail \in UpstreamFailures)
            => req[r].status = 502

---------------------------------------------------------------------------
(* Termination (SpecTokenLive) *)

\* C16 as stated: every request that is being handled is eventually
\* answered, whether or not the provider answers its calls.
C16_AsStated ==
    \A r \in Slots :
        (req[r].pc \notin {"idle", "done"}) ~> (req[r].pc = "done")

---------------------------------------------------------------------------
(* Client responses to upstream failures (SpecLeak) *)

\* what the client receives for a failed request
ClientResponse(r) ==
    [status |-> req[r].status, error |-> req[r].error,
     detail |-> req[r].detail, rawBody |-> req[r].rawBody]

\* two requests of one kind for one user failed on provider responses that
\* differ at most in the raw body
SameButBody(r1, r2) ==
    /\ req[r1].pc = "done" /\ req[r2].pc = "done"
    /\ req[r1].upstream # None /\ req[r2].upstream # None
    /\ req[r1].kind = req[r2].kind /\ req[r1].userId = req[r2].userId
    /\ [req[r1].upstream[1] EXCEPT !.body = ""]
          = [req[r2].upstream[1] EXCEPT !.body = ""]

\* C17 as stated: under NODE_ENV=production two failed requests that differ
\* only in the raw body of the provider's error response get the same
\* client response.
C17_AsStated ==
    nodeEnv = "production" =>
        \A r1, r2 \in Slots :
            SameButBody(r1, r2) => ClientResponse(r1) = ClientResponse(r2)

---------------------------------------------------------------------------
(* Push mode and pull mode of connect (SpecMode) *)

\* body.transactions is a non-empty array
NonEmptyArray(t) == t # None /\ t[1].isArray /\ t[1].items # <<>>

\* the connect requests whose exchange succeeded and whose mode is chosen
ModeChosen == {r \in Slots : /\ req[r].kind = "connect"
                              /\ req[r].wrote # None}

\* the calls of the loop of line 502 from account idx to account last
RECURSIVE PullOrder(_, _)
PullOrder(idx, last) ==
    IF idx > last THEN <<>>
    ELSE <<Call("upsert-account", idx), Call("transaction-list", idx)>>
            \o PullOrder(idx + 1, last)

\* sq is the beginning of full
IsPrefix(sq, full) ==
    Len(sq) <= Len(full) /\ \A i \in 1..Len(sq) : sq[i] = full[i]

\* request r is on the push path: it issued no call, upserted no account
\* and inserts, or has inserted, the values of body.transactions
OnPushPath(r) ==
    /\ req[r].calls = <<>> /\ req[r].created = {}
    /\ \/ req[r].pc = "push_insert"
       \/ req[r].pc = "done" /\ req[r].status = 200
    /\ req[r].allValues = [i \in 1..Len(req[r].txs[1].items) |->
                              PushValues(req[r].userId, req[r].txs[1].items[i])]

\* request r is on the pull path: its calls so far are user-info,
\* account-list, then upsert and transaction list account by account
OnPullPath(r) ==
    /\ req[r].calls # <<>> /\ req[r].pc # "push_insert"
    /\ IsPrefix(req[r].calls,
                <<Call("user-info", 0), Call("account-list", 0)>>
                    \o PullOrder(1, Len(req[r].calls)))

\* a step that changes bank_accounts is the upsert of a request that is not
\* in push mode
UpsertIsPull ==
    bank_accounts' # bank_accounts =>
        \E r \in Slots : /\ req[r].pc = "upsert_write" /\ req'[r] # req[r]
                          /\ ~NonEmptyArray(req[r].txs)

---------------------------------------------------------------------------
(* Account references of the stored transactions (SpecIngest) *)

\* the bank_accounts row with this id exists and belongs to user u
OwnedAccount(u, id) ==
    \E j \in 1..Len(bank_accounts) :
        bank_accounts[j].id = id /\ bank_accounts[j].user_id = u

\* C19 as stated: every stored transaction with a non-null account_id
\* references an existing bank_accounts row of the transaction's user.
C19_AsStated ==
    \A i \in 1..Len(transactions) :
        transactions[i].account_id # None =>
            OwnedAccount(transactions[i].user_id, transactions[i].account_id[1])

---------------------------------------------------------------------------
(* Token sets stored without expires_in (SpecToken) *)

\* the requests that stored a token set from a response without expires_in
NoExpiryWriters == {w \in Writers : ResponseOf(w).expires_in = None}

\* the row the check of request q read is the one request w wrote
ReadWriteOf(q, w) == q \in Checked /\ w # q /\ req[q].row = req[w].wrote

\* request q did not use the stored access token: it called the provider to
\* refresh, or failed before the call for want of a refresh token or of the
\* KFTC_* variables
OnRefreshPath(q) ==
    \/ req[q].refreshCalls = 1
    \/ /\ req[q].refreshCalls = 0 /\ req[q].pc = "done"
       /\ req[q].detail \in {"refresh_token_missing", "Missing required env vars"}

\* C20: a token set stored from an exchange or refresh response without
\* expires_in has an expiry that is not in the future, let alone more than the
\* buffer window ahead, and an ensureKftcAccessToken that reads this token
\* set does not use its access token and takes the refresh path.
C20_NoExpiryIsStale ==
    \A w \in NoExpiryWriters :
        /\ LET expires == req[w].wrote[1].kftc_token_expires_at
           IN expires = None \/ expires[1] <= now
        /\ ~isValid(req[w].wrote[1], now)
        /\ \A q \in Slots :
              ReadWriteOf(q, w) => ~FreshAtCheck(q) /\ OnRefreshPath(q)

\* a refresh answered without expires_in was stored, and the next call read
\* that token set and called the provider again
C20_Witness ==
    \E w \in NoExpiryWriters, q \in Slots :
        /\ ReadWriteOf(q, w)
        /\ req[w].kind = "access-token"
        /\ req[q].refreshCalls = 1

---------------------------------------------------------------------------
(* Failing calls of ensureKftcAccessToken (SpecToken) *)

\* the requests that call ensureKftcAccessToken
Ensurers == {r \in Slots : req[r].kind \in {"access-token", "account"}}

\* the provider's answer to the refresh is a failure: a non-2xx status, an
\* unparsable body, or a body without access_token
RefreshFailed(resp) ==
    \/ resp.status \notin 200..299
    \/ ~resp.parses
    \/ resp.access_token = None

\* the call of request r failed before any provider call
FailedEarly(r) ==
    /\ req[r].pc = "done"
    /\ req[r].detail \in {"user_not_found", "refresh_token_missing"}

\* the call of request r got a failure for its refresh
FailedRefresh(r) == req[r].refreshed # None /\ RefreshFailed(req[r].refreshed[1])

\* a step that changes the users table is the UPDATE of a connect whose
\* exchange, or of a call whose refresh, brought an access token
WriteAfterSuccess ==
    users' # users =>
        \E r \in Slots :
            /\ req'[r].wrote # req[r].wrote
            /\ \/ /\ req[r].pc = "persist"
                  /\ ~ExchangeFailed(req[r].exchanged[1])
               \/ /\ req[r].pc = "ens_update"
                  /\ ~RefreshFailed(req[r].refreshed[1])

\* C21: a failing ensureKftcAccessToken writes no token set: user_not_found
\* and refresh_token_missing are raised with no provider call made, a refresh
\* that fails upstream, does not parse or brings no access token ends the
\* call before the UPDATE, and the users table changes only by the UPDATE
\* that follows a successful exchange or refresh.
C21_FailureKeepsTokens ==
    /\ [](\A r \in Ensurers :
            /\ FailedEarly(r) =>
                  /\ req[r].refreshCalls = 0 /\ req[r].refreshed = None
                  /\ req[r].wrote = None /\ req[r].status \in {400, 502}
            /\ FailedRefresh(r) =>
                  /\ req[r].pc = "done" /\ req[r].wrote = None
                  /\ req[r].status \in {400, 502})
    /\ [][WriteAfterSuccess]_vars

\* the refresh of a user with a stored token set brought no access token,
\* and the stored set is still the one the call read
C21_Witness ==
    \E r \in Ensurers :
        /\ FailedRefresh(r)
        /\ req[r].refreshed[1].status = 200 /\ req[r].refreshed[1].parses
        /\ req[r].userId \in DOMAIN users
        /\ users[req[r].userId] = req[r].row[1]
        /\ users[req[r].userId].kftc_access_token # None

---------------------------------------------------------------------------
(* Category of the stored transactions (SpecIngest) *)

\* C22 as stated: every stored transaction row has category NULL.
C22_AsStated ==
    \A i \in 1..Len(transactions) : transactions[i].category = None

---------------------------------------------------------------------------
(* Transactions without tran_id (SpecSynth) *)

\* the four fields the synthesized key is made of
KeyFields(t) == <<t.tran_date, t.tran_time, t.printed_content, t.tran_amt>>

\* the raw transactions without tran_id that the provider returns
SynthRaws == UNION {{l[i] : i \in 1..Len(l)} : l \in SynthLists}

\* the stored rows of user u under the key of raw transaction t
SynthRows(u, t) ==
    {i \in 1..Len(transactions) :
        /\ transactions[i].user_id = u
        /\ transactions[i].kftc_tran_id = kftcTranId(t)}

\* the INSERT IGNORE of a pull or of an account sync executes with rows of
\* synthesized key: the request answers 200 and each key is stored once
SynthInsert ==
    \A r \in Slots :
        (req[r].pc \in {"pull_insert", "acc_insert"} /\ req'[r].pc = "done") =>
            /\ req'[r].status = 200
            /\ \A k \in 1..Len(req[r].allValues) :
                  Cardinality({i \in 1..Len(transactions') :
                      /\ transactions'[i].user_id = req[r].userId
                      /\ transactions'[i].kftc_tran_id
                            = req[r].allValues[k].kftc_tran_id}) = 1


\* C23: for raw transactions without tran_id the key is a function of date,
\* time, content and amount alone; two such records of one user with these
\* four fields equal, in one batch, in two accounts or in two requests, are
\* stored as one row, and the insert that drops the second answers 200.
C23_SynthKeyDedups ==
    /\ [](\A t1, t2 \in SynthRaws :
            (t1.tran_id = <<>> /\ t2.tran_id = <<>> /\ KeyFields(t1) = KeyFields(t2))
                => kftcTranId(t1) = kftcTranId(t2))
    /\ [](\A t \in SynthRaws : Cardinality(SynthRows(1, t)) <= 1)
    /\ [][SynthInsert]_vars

\* the account sync brought a record whose four fields equal those of a
\* stored row with another balance: one row is stored, the one stored first
C23_Witness ==
    \E r \in Slots :
        /\ req[r].kind = "account" /\ req[r].pc = "done" /\ req[r].status = 200
        /\ req[r].dupSeen /\ req[r].insertedKeys = {}
        /\ req[r].allValues = <<MapRawAccount(1, RawY)>>
        /\ Cardinality(SynthRows(1, RawY)) = 1
        /\ \E i \in SynthRows(1, RawY) :
              transactions[i].balance_after = RawX.after_balance_amt

---------------------------------------------------------------------------
(* Independence of the users (SpecUsers) *)

\* the rows of a table that belong to user v
OwnedRows(tbl, v) == {tbl[i] : i \in {j \in 1..Len(tbl) : tbl[j].user_id = v}}

\* a step of a request of user u leaves the token set, the bank accounts and
\* the transactions of every other user as they are
OthersKept ==
    \A r \in Slots :
        req'[r] # req[r] =>
            \A v \in UserIds \ {req'[r].userId} :
                /\ users'[v] = users[v]
                /\ OwnedRows(bank_accounts', v) = OwnedRows(bank_accounts, v)
                /\ OwnedRows(transactions', v) = OwnedRows(transactions, v)

\* C24: a step of a connect, access-token or account request of user u
\* changes no token set, bank account or transaction of another user, and a
\* provider transaction id ingested for two users has one row for each.
C24_UsersIndependent ==
    /\ [][OthersKept]_vars
    /\ [](\A id \in IngestedIds(1) \cap IngestedIds(2) :
            Cardinality(Rows(1, id)) = 1 /\ Cardinality(Rows(2, id)) = 1)

\* P1 was ingested for both users, one row each, and the two users hold
\* different token sets
C24_Witness ==
    /\ <<"P1">> \in IngestedIds(1) \cap IngestedIds(2)
    /\ Cardinality(Rows(1, <<"P1">>)) = 1 /\ Cardinality(Rows(2, <<"P1">>)) = 1
    /\ users[1] # users[2]

---------------------------------------------------------------------------
(* Failures of connect after the token set was stored (SpecIngest) *)

\* connect requests past the exchange: a data call was issued or the rows
\* of the request are being, or were, inserted
PastExchange ==
    {r \in Slots : /\ req[r].kind = "connect"
                   /\ \/ req[r].calls # <<>>
                      \/ req[r].pc \in {"push_insert", "pull_insert"}
                      \/ req[r].respTxs # <<>>}

\* connect requests that stored the token set and failed afterwards
FailedLate ==
    {r \in PastExchange : req[r].pc = "done" /\ req[r].status # 200}

\* the step in which a connect that stored its token set fails writes
\* nothing: no statement of the request is undone
FailureUndoesNothing ==
    \A r \in Slots :
        (/\ req[r].kind = "connect" /\ req[r].wrote # None
         /\ req[r].pc # "done" /\ req'[r].pc = "done" /\ req'[r].status # 200)
            => dbVars' = dbVars

\* C25: connect stores the token set of a successful exchange before any
\* provider data call and any insert; a later failure answers 502 and undoes
\* nothing: the token set stays as stored and every bank account the request
\* inserted is still in the table.
C25_TokensSurviveFailure ==
    /\ [](\A r \in PastExchange :
            /\ req[r].wrote # None
            /\ req[r].wrote[1].kftc_access_token = req[r].exchanged[1].access_token)
    /\ [](\A r \in FailedLate :
            /\ req[r].status = 502
            /\ users[req[r].userId].kftc_access_token # None
            /\ \A id \in req[r].created : OwnedAccount(req[r].userId, id))
    /\ [][FailureUndoesNothing]_vars

\* a pull that stored the token set and inserted a bank account failed at
\* the transaction list: the token set and the account are stored
C25_Witness ==
    \E r \in FailedLate :
        /\ req[r].detail = "KFTC transactions failed"
        /\ req[r].created # {}
        /\ users[req[r].userId] = req[r].wrote[1]
        /\ req[r].replaced[1].kftc_access_token = None

---------------------------------------------------------------------------
(* The refresh token connect stores (SpecToken) *)

\* the connects that stored a token set
ConnectWriters == {w \in Writers : req[w].kind = "connect"}

\* C26: connect stores the refresh token of the exchange response as it is:
\* when the response has none the stored refresh token is NULL, whatever was
\* stored before, and an ensureKftcAccessToken that reads this token set and
\* finds the access token unusable fails with refresh_token_missing and makes
\* no provider call.
C26_ConnectDropsRefreshToken ==
    \A w \in ConnectWriters :
        /\ req[w].wrote[1].kftc_refresh_token = req[w].exchanged[1].refresh_token
        /\ \A q \in Slots :
              (/\ ReadWriteOf(q, w)
               /\ req[w].exchanged[1].refresh_token = None
               /\ ~FreshAtCheck(q))
                 => /\ req[q].pc = "done"
                    /\ req[q].detail = "refresh_token_missing"
                    /\ req[q].status \in {400, 502}
                    /\ req[q].refreshCalls = 0 /\ req[q].refreshed = None

\* the user had a refresh token, a connect replaced it by NULL, and the next
\* call failed with refresh_token_missing
C26_Witness ==
    \E w \in ConnectWriters, q \in Slots :
        /\ ReadWriteOf(q, w)
        /\ req[w].replaced[1].kftc_refresh_token # None
        /\ req[w].wrote[1].kftc_refresh_token = None
        /\ users[1].kftc_refresh_token = None
        /\ req[q].detail = "refresh_token_missing"

---------------------------------------------------------------------------
(* Rows stored by the account sync (SpecUsers) *)

\* a stored row without account keeps its place and has no account after
\* the step
NullAccountKept ==
    \A i \in 1..Len(transactions) :
        transactions[i].account_id = None =>
            /\ i <= Len(transactions')
            /\ transactions'[i].kftc_tran_id = transactions[i].kftc_tran_id
            /\ transactions'[i].user_id = transactions[i].user_id
            /\ transactions'[i].account_id = None

\* the pull-mode connects that answered 200 and met a stored row
PullsOverStored ==
    {r \in Ingested : /\ req[r].kind = "connect" /\ req[r].calls # <<>>
                      /\ req[r].dupSeen}

\* C27: a transaction stored by the account sync has account_id NULL and
\* keeps it: a later pull-mode connect that brings the same key with the id
\* of a bank account skips the row and attaches no account.
C27_NullAccountStays ==
    /\ [](\A r \in Ingested : req[r].kind = "account" =>
            \A k \in 1..Len(req[r].allValues) :
                req[r].allValues[k].account_id = None)
    /\ [][NullAccountKept]_vars

\* the account sync stored P1 without account; a pull of the same user
\* brought P1 with the id of its bank account; the stored row has no account
C27_Witness ==
    \E a \in Ingested, r \in PullsOverStored :
        /\ req[a].kind = "account" /\ req[a].userId = req[r].userId
        /\ req[a].insertedKeys = {<<"P1">>}
        /\ req[r].insertedKeys = {}
        /\ req[r].allValues[1].kftc_tran_id = <<"P1">>
        /\ req[r].allValues[1].account_id # None
        /\ \A i \in Rows(req[r].userId, <<"P1">>) : transactions[i].account_id = None
        /\ Cardinality(Rows(req[r].userId, <<"P1">>)) = 1

---------------------------------------------------------------------------
(* Callbacks without code (SpecState) *)

\* the last callback was refused for its missing code
CodeMissing(c) == c.status = 400 /\ c.error = "code is required"

\* a step that refuses a callback for its missing code
RefusedForCode == lastCallback' # lastCallback /\ CodeMissing(lastCallback')

\* C28: a callback refused for a missing code consumes no state: the
\* registry is as before, and a registered, unexpired state it carried is
\* still in the registry and validates in a later callback.
C28_MissingCodeKeepsState ==
    /\ [][RefusedForCode =>
            /\ stateStore' = stateStore
            /\ validations' = validations]_vars
    /\ []((CodeMissing(lastCallback) /\ UsableState(lastCallback)) =>
            /\ lastCallback.state[1] \in DOMAIN stateStore
            /\ validateAndConsumeState(stateStore, lastCallback.state[1],
                                       now).result)

\* a callback without code carried a registered, unexpired state
C28_Witness ==
    /\ CodeMissing(lastCallback)
    /\ UsableState(lastCallback)
    /\ lastCallback.code \in {None, Some("")}
    /\ lastCallback.state[1] \in DOMAIN stateStore

---------------------------------------------------------------------------
(* The registry and the other routes (SpecRegistry) *)

\* a step that changes the registry is the insert of auth-url or the delete
\* of a callback, and no step of a request changes it
RegistrySteps ==
    /\ stateStore' # stateStore =>
          /\ req' = req /\ dbVars' = dbVars
          /\ \/ /\ issuedAt' # issuedAt
                /\ \E s \in StateTokens \ DOMAIN stateStore :
                      stateStore' = rememberState(stateStore, s, now)
             \/ /\ validations' # validations
                /\ \E s \in DOMAIN stateStore :
                      stateStore' = MapDelete(stateStore, s)
    /\ req' # req => registryVars' = registryVars

\* the connects that were answered
Connected == {r \in Slots : req[r].kind = "connect" /\ req[r].pc = "done"}

\* what the client of a connect gets
ConnectOutcome(r) ==
    <<req[r].status, req[r].error, req[r].detail, req[r].respTxs>>

\* C29: connect, access-token and account leave the registry alone and do
\* not read it: every connect with a code goes to the exchange, and two
\* connects whose exchange got the same response have the same outcome,
\* whatever the callback has validated; the registry changes by auth-url and
\* by callback only, so that a state never presented to the callback stays in
\* it, expired or not.
C29_RegistryApart ==
    /\ [][RegistrySteps]_vars
    /\ [](\A r \in Connected :
            req[r].exchanged # None \/ req[r].detail = "Missing required env vars")
    /\ [](\A r1, r2 \in Connected :
            req[r1].exchanged = req[r2].exchanged
                => ConnectOutcome(r1) = ConnectOutcome(r2))
    /\ [](\A s \in DOMAIN issuedAt :
            validations[s] = <<>> => s \in DOMAIN stateStore)

\* no callback has accepted a state, s2 has expired in the registry, and a
\* connect was answered 200 all the same; another was answered after the
\* registry had changed
C29_Witness ==
    /\ lastCallback.status # 200
    /\ "s2" \in DOMAIN stateStore /\ now > stateStore["s2"]
    /\ \A r \in Slots : r \in Connected /\ req[r].status = 200

---------------------------------------------------------------------------
(* The two mappings of a raw transaction (SpecNormalize) *)

\* the pulls of connect and the account syncs that were answered
PullsDone ==
    {r \in Slots : req[r].kind = "connect" /\ req[r].pc = "done"
                        /\ req[r].txs = None /\ req[r].providerIds # {}}
SyncsDone ==
    {r \in Slots : req[r].kind = "account" /\ req[r].pc = "done"
                        /\ req[r].providerIds # {}}

\* the rows of a statement, the account id apart
NoAccount(values) == [i \in 1..Len(values) |-> [values[i] EXCEPT !.account_id = None]]

\* C30: a pull of connect and an account sync that were served the same
\* records end alike: the same status, and the same rows but for the account
\* id (key, timestamp with missing parts as 00, DEPOSIT or WITHDRAW), a
\* record without tran_time included.
C30_AsStated ==
    \A r1 \in PullsDone, r2 \in SyncsDone :
        req[r1].providerIds = req[r2].providerIds =>
            /\ req[r1].status = req[r2].status
            /\ NoAccount(req[r1].allValues) = req[r2].allValues
            /\ req[r1].respTxs = req[r2].respTxs

=============================================================================
